---- MODULE Spec2Model ----
(***************************************************************************)
(* A model of the analysis / clean / refactor / diff engine of             *)
(* python-code-refactor (src/utils/*.py).                                  *)
(*                                                                         *)
(* Source text.  A text is the sequence of its lines, as code.split('\n')  *)
(* gives them; a line is the sequence of its pieces, and the line's text   *)
(* is the concatenation of the pieces.  A piece is a maximal run of word   *)
(* characters (an identifier, a keyword, a number), one punctuation        *)
(* character, or a run of blanks.  Because word pieces are maximal, the    *)
(* regular expression \bNAME\b matches exactly the pieces equal to NAME.   *)
(*                                                                         *)
(* The Tree Builder (ast.parse) is modelled for a sub-language of Python:  *)
(* imports, simple assignments, expression statements, def / for / while / *)
(* if blocks by indentation, sums, and-chains, calls, attributes, string   *)
(* literals with prefixes.  The interpreter modelled is CPython 3.11.      *)
(***************************************************************************)
EXTENDS Integers, Sequences, FiniteSets, TLC

(* ------------------------------------------------------------------ *)
(* Bounds of the model                                                 *)
(* ------------------------------------------------------------------ *)

\* The longest input text, in lines.
MaxLines == 3

\* The longest input text of nested blocks, in lines.
MaxLoopLines == 4

\* The longest of two texts that differ a little, in lines.
MaxDiffLines == 2

(* ------------------------------------------------------------------ *)
(* Names.  A definition that models a function of the program bears   *)
(* the function's name (analyze_code, _get_imports, ...); it is used   *)
(* under the capitalised name of this list, which reaches it through   *)
(* Call.  A definition is then on every path of evaluation once, and   *)
(* TLC keeps one set of statistics for it, not one for every place     *)
(* from which it is used.                                              *)
(* ------------------------------------------------------------------ *)

RECURSIVE Call(_, _)
Tok(line, i) == Call("next_token", <<line, i>>)
Tokens(line) == Call("tokenize", <<line>>)
ArgsEnd(t, i) == Call("args_end", <<t, i>>)
TermEnd(t, i) == Call("term_end", <<t, i>>)
SumEnd(t, i) == Call("sum_end", <<t, i>>)
ArgListEnd(t, i) == Call("arg_list_end", <<t, i>>)
ExprEnd(t, i) == Call("expr_end", <<t, i>>)
IsExpr(t, i, j) == Call("is_expr", <<t, i, j>>)
IsNameList(t, i, j) == Call("is_name_list", <<t, i, j>>)
IsDotted(t, i, j) == Call("is_dotted", <<t, i, j>>)
ImportAt(t) == Call("import_at", <<t>>)
StmtOf(t) == Call("statement", <<t>>)
ParseFrom(text, i, stack, expect, acc) == Call("parse_lines", <<text, i, stack, expect, acc>>)
Parse(text) == Call("ast_parse", <<text>>)
SyntacticallyValid(text) == Call("syntactically_valid", <<text>>)
WalkFrom(stmts, d) == Call("walk_from", <<stmts, d>>)
Walk(stmts) == Call("ast_walk", <<stmts>>)
ChildStmts(stmts, k) == Call("child_stmts", <<stmts, k>>)
LoadAt(st, k) == Call("load_at", <<st, k>>)
AttrAt(st, k) == Call("attr_at", <<st, k>>)
StmtUsedNames(st) == Call("stmt_used_names", <<st>>)
Put(d, key, val) == Call("dict_set", <<d, key, val>>)
PutAll(d, items) == Call("put_all", <<d, items>>)
ImportModuleEnd(t) == Call("import_module_end", <<t>>)
ImportsOf(st) == Call("imports_of", <<st>>)
GetImports(tree) == Call("_get_imports", <<tree>>)
GetUsedNames(tree) == Call("_get_used_names", <<tree>>)
ImportIsUsed(imp, used_names) == Call("import_is_used", <<imp, used_names>>)
FindUnusedImports(imports, used_names) == Call("_find_unused_imports", <<imports, used_names>>)
GetVariables(tree) == Call("_get_variables", <<tree>>)
FindUnusedVariables(variables, used_names) == Call("_find_unused_variables", <<variables, used_names>>)
BoolOpValues(st) == Call("bool_op_values", <<st>>)
CheckNestedLoops(tree, k, level) == Call("_check_nested_loops", <<tree, k, level>>)
WalkIndex(tree) == Call("walk_index", <<tree>>)
FindComplexExpressions(tree) == Call("complex_expr", <<tree>>)
FindNestedLoops(tree) == Call("nested_loops", <<tree>>)
EndLine(tree, k) == Call("end_line", <<tree, k>>)
FindLongFunctions(tree) == Call("_find_long_functions", <<tree>>)
FindPoorVariableNames(variables) == Call("_find_poor_variable_names", <<variables>>)
NotAllowed(p) == Call("not_allowed", <<p>>)
MagicTokens(st) == Call("magic_tokens", <<st>>)
FindMagicNumbers(tree) == Call("_find_magic_numbers", <<tree>>)
CollapseSpaces(ps) == Call("collapse_spaces", <<ps>>)
Strip(ps) == Call("str_strip", <<ps>>)
Normalized(stmt) == Call("normalize", <<stmt>>)
DuplicationCandidates(tree, code) == Call("duplication_candidates", <<tree, code>>)
FindDuplicates(statements, seen, found) == Call("find_duplicates", <<statements, seen, found>>)
FindDuplicatedCode(tree, code) == Call("_find_duplicated_code", <<tree, code>>)
HasDocstring(tree, code, k) == Call("has_docstring", <<tree, code, k>>)
FindMissingDocstrings(tree, code) == Call("_find_missing_docstrings", <<tree, code>>)
FindExcessiveLineLength(code) == Call("_find_excessive_line_length", <<code>>)
ArgsCount(st) == Call("args_count", <<st>>)
FindTooManyArguments(tree) == Call("_find_too_many_arguments", <<tree>>)
InsideDef(tree, j) == Call("inside_def", <<tree, j>>)
FindGlobalVariables(tree) == Call("_find_global_variables", <<tree>>)
AnalyzeCode(code) == Call("analyze_code", <<code>>)
IsPoorName(name) == Call("_is_poor_name", <<name>>)
ValueKind(st) == Call("value_kind", <<st>>)
SuggestBetterName(name, node) == Call("_suggest_better_name", <<name, node>>)
PoorAssignments(tree) == Call("poor_assignments", <<tree>>)
RenamePlan(tree) == Call("rename_plan", <<tree>>)
SubAll(line, plan) == Call("sub_all", <<line, plan>>)
RenameVariables(code, tree) == Call("rename_variables", <<code, tree>>)
ExtractionCandidates(code, tree) == Call("extraction_candidates", <<code, tree>>)
CountAll(d, items) == Call("count_all", <<d, items>>)
ExtractedFuncs(counts, acc) == Call("funcs_of_repeated", <<counts, acc>>)
InsertFuncs(lines, import_end, funcs) == Call("insert_funcs", <<lines, import_end, funcs>>)
ReplaceIn(line, old, new) == Call("replace_in", <<line, old, new>>)
ReplaceAll(text, old, new) == Call("replace_all", <<text, old, new>>)
JoinCharacters(text) == Call("join_characters", <<text>>)
ApplyExtractions(text, funcs, first) == Call("apply_extractions", <<text, funcs, first>>)
ExtractFunctions(code, tree) == Call("extract_functions", <<code, tree>>)
SimplifyExpressions(code, tree) == Call("simplify_expressions", <<code, tree>>)
AppendAll(d, items) == Call("append_all", <<d, items>>)
ApplyDryPrinciples(code, tree) == Call("apply_dry_principles", <<code, tree>>)
ModuleRank(line) == Call("module_rank", <<line>>)
ImportKey(line) == Call("sort_key", <<line>>)
InsertSorted(run, line) == Call("insert_sorted", <<run, line>>)
IsortFrom(code, run) == Call("isort_from", <<code, run>>)
IsortCode(code) == Call("isort_code", <<code>>)
SortImports(code, fails) == Call("sort_imports", <<code, fails>>)
BlackLine(line) == Call("black_line", <<line>>)
BlackFormatStr(code) == Call("format_str", <<code>>)
FormatWithBlack(code, fails) == Call("format_with_black", <<code, fails>>)
RemoveLines(code, lines_to_remove) == Call("remove_lines", <<code, lines_to_remove>>)
CleanerImportsOf(st) == Call("cleaner_imports_of", <<st>>)
CleanerUsedNames(tree) == Call("cleaner_used_names", <<tree>>)
RemoveUnusedImports(code) == Call("remove_unused_imports", <<code>>)
LooksLikeAssignment(line) == Call("looks_like_assignment", <<line>>)
RemoveUnusedVariables(code) == Call("remove_unused_variables", <<code>>)
FindLongestMatch(a, b, alo, ahi, blo, bhi, junk) == Call("find_longest_match", <<a, b, alo, ahi, blo, bhi, junk>>)
MatchingBlocks(a, b, alo, ahi, blo, bhi, junk) == Call("get_matching_blocks", <<a, b, alo, ahi, blo, bhi, junk>>)
OpcodesFrom(blocks, i, j) == Call("opcodes_from", <<blocks, i, j>>)
GetOpcodes(a, b) == Call("get_opcodes", <<a, b>>)
PlainReplace(a, alo, ahi, b, blo, bhi) == Call("_plain_replace", <<a, alo, ahi, b, blo, bhi>>)
MatchedChars(x, y) == Call("matched_chars", <<x, y>>)
Ratio(x, y) == Call("ratio", <<x, y>>)
BestPair(a, alo, ahi, b, blo, bhi, i, j, best, eq) == Call("best_pair", <<a, alo, ahi, b, blo, bhi, i, j, best, eq>>)
Hint(x, matched) == Call("hint_line", <<x, matched>>)
FancyHelper(a, alo, ahi, b, blo, bhi) == Call("_fancy_helper", <<a, alo, ahi, b, blo, bhi>>)
FancyReplace(a, alo, ahi, b, blo, bhi) == Call("_fancy_replace", <<a, alo, ahi, b, blo, bhi>>)
Ndiff(a, b) == Call("ndiff", <<a, b>>)
ClassifiedLines(diff_lines) == Call("classified_lines", <<diff_lines>>)
HighlightDiff(diff_lines) == Call("highlight_diff", <<diff_lines>>)
GenerateDiff(original_code, refactored_code) == Call("generate_diff", <<original_code, refactored_code>>)
CleanCode(code, isort_fails, black_fails) == Call("clean_code", <<code, isort_fails, black_fails>>)

(* ------------------------------------------------------------------ *)
(* Pieces                                                              *)
(* ------------------------------------------------------------------ *)

IndentUnit == "    "
Spaces == {" ", "  ", IndentUnit}
Quote == "\""
Puncts == {"=", "+", "(", ")", ",", ":", ".", Quote, "[", "]", "{", "}"}
Keywords == {"import", "from", "as", "def", "for", "in", "while", "if",
             "global", "pass", "and"}
\* A hexadecimal literal of 5000 digits: more decimal digits than str() of
\* an int may produce (sys.int_info.default_max_str_digits, 4300).
HugeHex == "0xFFFF...FFFF"
\* A sum of 100000 operands written on one line: the Tree Builder runs out
\* of recursion depth while it builds the tree.
DeepSum == "1+1+...+1"
Numbers == {"0", "1", "2", "7", "10", "100", HugeHex}
StrPrefixes == {"b", "r", "u", "f"}

IsWord(p) == p \notin Spaces /\ p \notin Puncts /\ p # DeepSum
IsNamePiece(p) == IsWord(p) /\ p \notin Keywords /\ p \notin Numbers

\* str.startswith('_') on the identifiers of the model.
StartsWithUnderscore(name) == name \in {"_", "_t", "_tmp"}

\* len(s) of a piece sequence, in characters.
RECURSIVE CharLen(_)
CharLen(ps) == IF ps = <<>> THEN 0 ELSE Len(Head(ps)) + CharLen(Tail(ps))

(* ------------------------------------------------------------------ *)
(* Tree Builder: tokens                                                *)
(* ------------------------------------------------------------------ *)

\* The index of the first quote at or after i, 0 when there is none.
RECURSIVE ClosingQuote(_, _)
ClosingQuote(line, i) ==
    IF i > Len(line) THEN 0
    ELSE IF line[i] = Quote THEN i
    ELSE ClosingQuote(line, i + 1)

Classify(p) ==
    IF p = DeepSum THEN "deep"
    ELSE IF p \in Puncts THEN "op"
    ELSE IF p \in Keywords THEN "kw"
    ELSE IF p \in Numbers THEN "num"
    ELSE "name"

Token(ty, v, at, end) == [ty |-> ty, v |-> v, at |-> at, end |-> end]

\* The tokens of a line from piece i on.  A word directly before a quote is
\* the literal's prefix when it is one of b, r, u, f; any other word there is
\* a name, followed by a string.
next_token(line, i) ==
    IF i > Len(line) THEN <<>>
    ELSE LET p == line[i] IN
         IF p \in Spaces THEN Tok(line, i + 1)
         ELSE IF p = Quote THEN
              LET close == ClosingQuote(line, i + 1) IN
              IF close = 0 THEN <<Token("bad", "", i, Len(line))>>
              ELSE <<Token("str", "", i, close)>> \o Tok(line, close + 1)
         ELSE IF /\ p \in StrPrefixes
                 /\ i < Len(line)
                 /\ line[i + 1] = Quote THEN
              LET close == ClosingQuote(line, i + 2) IN
              IF close = 0 THEN <<Token("bad", "", i, Len(line))>>
              ELSE <<Token("str", p, i, close)>> \o Tok(line, close + 1)
         ELSE <<Token(Classify(p), p, i, i)>> \o Tok(line, i + 1)

tokenize(line) == Tok(line, 1)

IsOp(t, i, s) == i >= 1 /\ i <= Len(t) /\ t[i].ty = "op" /\ t[i].v = s
IsKw(t, i, s) == i >= 1 /\ i <= Len(t) /\ t[i].ty = "kw" /\ t[i].v = s
IsTy(t, i, ty) == i >= 1 /\ i <= Len(t) /\ t[i].ty = ty

(* ------------------------------------------------------------------ *)
(* Tree Builder: expressions.  Each operator gives the index after the *)
(* phrase that starts at token i, or 0 when there is no such phrase.   *)
(* ------------------------------------------------------------------ *)


args_end(t, i) == IF IsOp(t, i, ")") THEN i + 1 ELSE ArgListEnd(t, i)

term_end(t, i) ==
    IF i > Len(t) THEN 0
    ELSE IF t[i].ty \in {"num", "str", "deep"} THEN i + 1
    ELSE IF IsOp(t, i, "[") THEN (IF IsOp(t, i + 1, "]") THEN i + 2 ELSE 0)
    ELSE IF IsOp(t, i, "{") THEN (IF IsOp(t, i + 1, "}") THEN i + 2 ELSE 0)
    ELSE IF t[i].ty = "name" THEN
         IF IsOp(t, i + 1, ".") THEN
              IF ~IsTy(t, i + 2, "name") THEN 0
              ELSE IF IsOp(t, i + 3, "(") THEN ArgsEnd(t, i + 4)
              ELSE i + 3
         ELSE IF IsOp(t, i + 1, "(") THEN ArgsEnd(t, i + 2)
         ELSE i + 1
    ELSE 0

sum_end(t, i) ==
    LET e == TermEnd(t, i) IN
    IF e = 0 THEN 0
    ELSE IF IsOp(t, e, "+") THEN SumEnd(t, e + 1)
    ELSE e

arg_list_end(t, i) ==
    LET s == IF IsTy(t, i, "name") /\ IsOp(t, i + 1, "=")
             THEN SumEnd(t, i + 2)
             ELSE SumEnd(t, i) IN
    IF s = 0 THEN 0
    ELSE IF IsOp(t, s, ")") THEN s + 1
    ELSE IF IsOp(t, s, ",") THEN ArgListEnd(t, s + 1)
    ELSE 0

expr_end(t, i) ==
    LET e == SumEnd(t, i) IN
    IF e = 0 THEN 0
    ELSE IF IsKw(t, e, "and") THEN ExprEnd(t, e + 1)
    ELSE e

\* The expression covers the tokens i .. j exactly.
is_expr(t, i, j) == i <= j /\ ExprEnd(t, i) = j + 1

\* NAME (, NAME)* covers the tokens i .. j exactly.
is_name_list(t, i, j) ==
    /\ i <= j
    /\ IsTy(t, i, "name")
    /\ \/ i = j
       \/ IsOp(t, i + 1, ",") /\ IsNameList(t, i + 2, j)

\* NAME (. NAME)* covers the tokens i .. j exactly.
is_dotted(t, i, j) ==
    /\ i <= j
    /\ IsTy(t, i, "name")
    /\ \/ i = j
       \/ IsOp(t, i + 1, ".") /\ IsDotted(t, i + 2, j)

(* ------------------------------------------------------------------ *)
(* Tree Builder: statements                                            *)
(* ------------------------------------------------------------------ *)

\* The text of the tokens i .. j written without blanks (a dotted name).
RECURSIVE Joined(_, _, _)
Joined(t, i, j) == IF i > j THEN "" ELSE t[i].v \o Joined(t, i + 1, j)

\* The values of the name tokens among i .. j, in order.
RECURSIVE NamesIn(_, _, _)
NamesIn(t, i, j) ==
    IF i > j THEN <<>>
    ELSE (IF t[i].ty = "name" THEN <<t[i].v>> ELSE <<>>) \o NamesIn(t, i + 1, j)

\* The position of the keyword `import` of a from-import, 0 when none.
import_at(t) ==
    IF \E k \in 1..Len(t) : IsKw(t, k, "import")
    THEN CHOOSE k \in 1..Len(t) : IsKw(t, k, "import")
    ELSE 0

NoStmt == [kind |-> "invalid"]

\* A statement: its kind, its tokens, and the tokens lo .. hi of its
\* expression (the assigned value, the condition, the iterated value).
Stmt(kind, t, lo, hi) == [kind |-> kind, toks |-> t, lo |-> lo, hi |-> hi]

\* The statement a line's tokens make, NoStmt when they make none.
statement(t) ==
    LET n == Len(t) IN
    IF n = 0 THEN NoStmt
    ELSE IF IsKw(t, 1, "import") THEN
         IF IsDotted(t, 2, n) THEN Stmt("import", t, 1, 0)
         ELSE IF n >= 4 /\ IsKw(t, n - 1, "as") /\ IsTy(t, n, "name")
                 /\ IsDotted(t, 2, n - 2) THEN Stmt("import", t, 1, 0)
         ELSE NoStmt
    ELSE IF IsKw(t, 1, "from") THEN
         LET k == ImportAt(t) IN
         IF k > 2 /\ IsDotted(t, 2, k - 1) /\ IsNameList(t, k + 1, n)
         THEN Stmt("from", t, 1, 0) ELSE NoStmt
    ELSE IF IsKw(t, 1, "def") THEN
         IF /\ n >= 5
            /\ IsTy(t, 2, "name")
            /\ IsOp(t, 3, "(")
            /\ IsOp(t, n - 1, ")")
            /\ IsOp(t, n, ":")
            /\ (n = 5 \/ IsNameList(t, 4, n - 2))
         THEN Stmt("def", t, 1, 0) ELSE NoStmt
    ELSE IF IsKw(t, 1, "for") THEN
         IF /\ IsTy(t, 2, "name")
            /\ IsKw(t, 3, "in")
            /\ IsOp(t, n, ":")
            /\ IsExpr(t, 4, n - 1)
         THEN Stmt("for", t, 4, n - 1) ELSE NoStmt
    ELSE IF IsKw(t, 1, "while") \/ IsKw(t, 1, "if") THEN
         IF IsOp(t, n, ":") /\ IsExpr(t, 2, n - 1)
         THEN Stmt(t[1].v, t, 2, n - 1) ELSE NoStmt
    ELSE IF IsKw(t, 1, "global") THEN
         IF n = 2 /\ IsTy(t, 2, "name") THEN Stmt("global", t, 1, 0) ELSE NoStmt
    ELSE IF IsKw(t, 1, "pass") THEN
         IF n = 1 THEN Stmt("pass", t, 1, 0) ELSE NoStmt
    ELSE IF IsTy(t, 1, "name") /\ IsOp(t, 2, "=") THEN
         IF IsExpr(t, 3, n) THEN Stmt("assign", t, 3, n) ELSE NoStmt
    ELSE IF IsExpr(t, 1, n) THEN Stmt("expr", t, 1, n)
    ELSE NoStmt

OpensBlock(kind) == kind \in {"def", "for", "while", "if"}
IsLoop(kind) == kind \in {"for", "while"}

(* ------------------------------------------------------------------ *)
(* Tree Builder: blocks                                                *)
(* ------------------------------------------------------------------ *)

IsBlank(line) == \A k \in 1..Len(line) : line[k] \in Spaces

\* The column of a line's first piece that is no blank.
RECURSIVE IndentCol(_)
IndentCol(line) ==
    IF line = <<>> \/ Head(line) \notin Spaces THEN 0
    ELSE Len(Head(line)) + IndentCol(Tail(line))

\* The indentation stack popped down to column col.
RECURSIVE PopTo(_, _)
PopTo(stack, col) ==
    IF stack = <<>> \/ stack[Len(stack)] <= col THEN stack
    ELSE PopTo(SubSeq(stack, 1, Len(stack) - 1), col)

SyntaxFailure(line) == [ok |-> FALSE, err |-> "SyntaxError", line |-> line, stmts |-> <<>>]

\* The statements of the lines i .. of text, each with its line number and
\* block depth, after the statements acc; stack holds the open indentation
\* columns and expect says that the last statement opens a block.
parse_lines(text, i, stack, expect, acc) ==
    IF i > Len(text) THEN
         \* the block is missed where the text ends: on its last line, the
         \* one before when a line break ends the text
         IF expect
         THEN SyntaxFailure(IF text[Len(text)] = <<>> THEN Len(text) - 1
                            ELSE Len(text))
         ELSE [ok |-> TRUE, err |-> "", line |-> 0, stmts |-> acc]
    ELSE IF IsBlank(text[i]) THEN ParseFrom(text, i + 1, stack, expect, acc)
    ELSE
      LET col   == IndentCol(text[i])
          top   == stack[Len(stack)]
          stk   == IF expect THEN Append(stack, col) ELSE PopTo(stack, col)
          st    == StmtOf(Tokens(text[i]))
      IN
      IF expect /\ col <= top THEN SyntaxFailure(i)
      ELSE IF ~expect /\ col > top THEN SyntaxFailure(i)
      ELSE IF stk[Len(stk)] # col THEN SyntaxFailure(i)
      ELSE IF st.kind = "invalid" THEN SyntaxFailure(i)
      ELSE ParseFrom(text, i + 1, stk, OpensBlock(st.kind),
                     Append(acc, [kind |-> st.kind, toks |-> st.toks,
                                  lo |-> st.lo, hi |-> st.hi,
                                  line |-> i, depth |-> Len(stk) - 1]))

HasDeep(stmts) ==
    \E k \in 1..Len(stmts) :
        \E m \in 1..Len(stmts[k].toks) : stmts[k].toks[m].ty = "deep"

\* ast.parse(code): the tree, as the sequence of the statements in line
\* order with their block depths; a SyntaxError with its line; or the
\* RecursionError raised while the tree of a parsed text is built.
ast_parse(text) ==
    LET r == ParseFrom(text, 1, <<0>>, FALSE, <<>>) IN
    IF ~r.ok THEN r
    ELSE IF HasDeep(r.stmts)
         THEN [ok |-> FALSE, err |-> "RecursionError", line |-> 0, stmts |-> <<>>]
    ELSE r

\* The input is syntactically valid: the grammar accepts it.
syntactically_valid(text) == Parse(text).err # "SyntaxError"

(* ------------------------------------------------------------------ *)
(* Walking the tree                                                    *)
(* ------------------------------------------------------------------ *)

RECURSIVE SeqToSet(_)
SeqToSet(q) == IF q = <<>> THEN {} ELSE {Head(q)} \cup SeqToSet(Tail(q))

RECURSIVE Flatten(_)
Flatten(qq) == IF qq = <<>> THEN <<>> ELSE Head(qq) \o Flatten(Tail(qq))

\* The statements of block depth d, in line order.
RECURSIVE AtDepth(_, _)
AtDepth(stmts, d) ==
    IF stmts = <<>> THEN <<>>
    ELSE (IF Head(stmts).depth = d THEN <<Head(stmts)>> ELSE <<>>)
         \o AtDepth(Tail(stmts), d)

walk_from(stmts, d) ==
    IF d > Len(stmts) THEN <<>>
    ELSE AtDepth(stmts, d) \o WalkFrom(stmts, d + 1)

\* The statements in the order ast.walk meets them: breadth first, so by
\* block depth and, within a depth, in line order.
ast_walk(stmts) == WalkFrom(stmts, 0)

\* The positions of the statements inside the block statement k opens.
InBlock(stmts, k) ==
    {j \in (k + 1)..Len(stmts) :
        \A m \in (k + 1)..j : stmts[m].depth > stmts[k].depth}

\* ast.iter_child_nodes, for the statements: the block's own statements.
child_stmts(stmts, k) ==
    {j \in InBlock(stmts, k) : stmts[j].depth = stmts[k].depth + 1}

Max(S) == CHOOSE x \in S : \A y \in S : y <= x

(* ------------------------------------------------------------------ *)
(* What an expression reads                                            *)
(* ------------------------------------------------------------------ *)

\* The tokens of the expression of statement st that are names in Load
\* context: no attribute name (after a dot), no keyword of a call (before =).
load_at(st, k) ==
    /\ st.toks[k].ty = "name"
    /\ ~IsOp(st.toks, k - 1, ".")
    /\ ~IsOp(st.toks, k + 1, "=")

\* An attribute access whose base is a name: NAME . NAME at k.
attr_at(st, k) ==
    /\ LoadAt(st, k)
    /\ IsOp(st.toks, k + 1, ".")
    /\ IsTy(st.toks, k + 2, "name")

\* A dotted name is the sequence of its segments: "os.path" is <<"os", "path">>.
stmt_used_names(st) ==
    {<<st.toks[k].v>> : k \in {k \in st.lo..st.hi : LoadAt(st, k)}}
    \cup {<<st.toks[k].v, st.toks[k + 2].v>> :
            k \in {k \in st.lo..st.hi : AttrAt(st, k)}}

(* ------------------------------------------------------------------ *)
(* Dictionaries, as Python keeps them: in the order of first insertion *)
(* ------------------------------------------------------------------ *)

HasKey(d, key) == \E k \in 1..Len(d) : d[k][1] = key
Get(d, key) == d[CHOOSE k \in 1..Len(d) : d[k][1] = key][2]
dict_set(d, key, val) ==
    IF HasKey(d, key)
    THEN [k \in 1..Len(d) |-> IF d[k][1] = key THEN <<key, val>> ELSE d[k]]
    ELSE Append(d, <<key, val>>)

\* d[key] = val for each <<key, val>> of items, in order, starting from d.
put_all(d, items) ==
    IF items = <<>> THEN d
    ELSE PutAll(Put(d, Head(items)[1], Head(items)[2]), Tail(items))

(* ------------------------------------------------------------------ *)
(* code_analyzer.py                                                    *)
(* ------------------------------------------------------------------ *)

Categories ==
    {"Unused Imports", "Unused Variables", "Complex Expressions",
     "Nested Loops", "Long Functions", "Code Duplication",
     "Poorly Named Variables", "Magic Numbers", "Missing Docstrings",
     "Excessive Line Length", "Too Many Arguments", "Global Variables"}

\* dir(builtins), for the identifiers of the model.
BuiltinNames == {"print", "open", "len", "str", "dict", "list"}
\* var.upper() == var, for the identifiers of the model.
IsUpperName(name) == name \in {"MAX", "LIMIT", "_"}

\* The last token of the module name of an import statement.
import_module_end(t) ==
    IF IsKw(t, Len(t) - 1, "as") THEN Len(t) - 2 ELSE Len(t)

\* The imports one statement adds to the list, each the sequence of the
\* segments of its dotted string: name.name, or module + "." + name.name.
imports_of(st) ==
    IF st.kind = "import" THEN <<NamesIn(st.toks, 2, ImportModuleEnd(st.toks))>>
    ELSE IF st.kind = "from" THEN
         LET k     == ImportAt(st.toks)
             names == NamesIn(st.toks, k + 1, Len(st.toks)) IN
         [m \in 1..Len(names) |-> NamesIn(st.toks, 2, k - 1) \o <<names[m]>>]
    ELSE <<>>

_get_imports(tree) ==
    LET w == Walk(tree) IN Flatten([k \in 1..Len(w) |-> ImportsOf(w[k])])

_get_used_names(tree) ==
    UNION {StmtUsedNames(tree[k]) : k \in 1..Len(tree)}

\* used + '.' is a prefix of imp.
StartsWithDotted(imp, used) ==
    Len(used) < Len(imp) /\ SubSeq(imp, 1, Len(used)) = used

import_is_used(imp, used_names) ==
    \E used \in used_names :
        \/ imp = used
        \/ StartsWithDotted(imp, used)
        \/ \E m \in 1..Len(imp) : Len(used) >= 2 /\ used[1] = imp[m]

_find_unused_imports(imports, used_names) ==
    Flatten([k \in 1..Len(imports) |->
        IF ~ImportIsUsed(imports[k], used_names)
        THEN <<<<"Import", imports[k], "is not used">>>> ELSE <<>>])

\* variables[target.id] = lineno for every assignment to a plain name.
_get_variables(tree) ==
    LET w == Walk(tree) IN
    PutAll(<<>>, Flatten([k \in 1..Len(w) |->
        IF w[k].kind = "assign"
        THEN <<<<w[k].toks[1].v, w[k].line>>>> ELSE <<>>]))

_find_unused_variables(variables, used_names) ==
    Flatten([k \in 1..Len(variables) |->
        LET var == variables[k][1] IN
        IF /\ <<var>> \notin used_names
           /\ var \notin BuiltinNames
           /\ ~StartsWithUnderscore(var)
        THEN <<<<"Variable", var, "declared on line", variables[k][2],
                 "is never used">>>>
        ELSE <<>>])

\* len(node.values) of the and-chain of a statement's expression, 0
\* when the expression is no boolean combination.
bool_op_values(st) ==
    LET ands == Cardinality({k \in st.lo..st.hi : IsKw(st.toks, k, "and")}) IN
    IF ands = 0 THEN 0 ELSE ands + 1

\* A wrong recursion: the loop's own level, whatever it holds.
OwnLevel(tree, k, level) == level

_check_nested_loops(tree, k, level) ==
    LET loops == {j \in ChildStmts(tree, k) : IsLoop(tree[j].kind)} IN
    Max({level} \cup {CheckNestedLoops(tree, j, level + 1) : j \in loops})

\* The positions of the statements of tree in the order ast.walk meets them.
walk_index(tree) ==
    LET n == Len(tree) IN
    Flatten([d \in 1..(n + 1) |->
        Flatten([k \in 1..n |-> IF tree[k].depth = d - 1 THEN <<k>> ELSE <<>>])])

complex_expr(tree) ==
    LET w == Walk(tree) IN
    Flatten([k \in 1..Len(w) |->
        IF BoolOpValues(w[k]) > 3
        THEN <<<<"Complex boolean expression with", BoolOpValues(w[k]),
                 "conditions at line", w[k].line>>>>
        ELSE <<>>])

nested_loops(tree) ==
    LET ix == WalkIndex(tree) IN
    Flatten([k \in 1..Len(ix) |->
        IF IsLoop(tree[ix[k]].kind) /\ CheckNestedLoops(tree, ix[k], 1) > 1
        THEN <<<<"Nested loop with", CheckNestedLoops(tree, ix[k], 1),
                 "levels at line", tree[ix[k]].line>>>>
        ELSE <<>>])

\* The last line of the statement at position k: of its block, when it
\* opens one.
end_line(tree, k) ==
    Max({tree[k].line} \cup {tree[j].line : j \in InBlock(tree, k)})

_find_long_functions(tree) ==
    LET ix == WalkIndex(tree) IN
    Flatten([k \in 1..Len(ix) |->
        LET func_lines == EndLine(tree, ix[k]) - tree[ix[k]].line + 1 IN
        IF tree[ix[k]].kind = "def" /\ func_lines > 30
        THEN <<<<"Function", tree[ix[k]].toks[2].v, "has", func_lines,
                 "lines (over 30) at line", tree[ix[k]].line>>>>
        ELSE <<>>])

LoopVariableNames == {"i", "j", "k", "x", "y", "z"}
NonDescriptiveNames == {"temp", "tmp", "var", "foo", "bar"}

_find_poor_variable_names(variables) ==
    Flatten([k \in 1..Len(variables) |->
        LET var  == variables[k][1]
            line == variables[k][2] IN
        IF StartsWithUnderscore(var) \/ var \in LoopVariableNames THEN <<>>
        ELSE (IF Len(var) = 1 /\ var \notin LoopVariableNames
              THEN <<<<"Variable", var, "at line", line,
                       "has a single-character name">>>>
              ELSE <<>>)
          \o (IF var \in NonDescriptiveNames
              THEN <<<<"Variable", var, "at line", line,
                       "has a non-descriptive name">>>>
              ELSE <<>>)])

AllowedNumbers == {0, 1, -1, 2, 10, 100}

\* The value of a numeric literal (of HugeHex only that it is not small).
NumVal(p) ==
    CASE p = "0" -> 0 [] p = "1" -> 1 [] p = "2" -> 2 [] p = "7" -> 7
      [] p = "10" -> 10 [] p = "100" -> 100

not_allowed(p) == p = HugeHex \/ NumVal(p) \notin AllowedNumbers

\* The numeric literals of a statement's expression that are not allowed.
magic_tokens(st) ==
    LET t == st.toks IN
    Flatten([k \in 1..Len(t) |->
        IF k >= st.lo /\ k <= st.hi /\ t[k].ty = "num" /\ NotAllowed(t[k].v)
        THEN <<t[k].v>> ELSE <<>>])

\* str(node.value) raises ValueError for an int of more than 4300 digits.
StrOfIntRaises(p) == p = HugeHex

\* The magic numbers, statement by statement; or the ValueError raised
\* when a finding's message is formatted.
_find_magic_numbers(tree) ==
    LET w     == Walk(tree)
        found == Flatten([k \in 1..Len(w) |->
                    LET m == MagicTokens(w[k]) IN
                    [n \in 1..Len(m) |->
                        <<"Magic number", m[n], "at line", w[k].line>>]]) IN
    IF \E k \in 1..Len(found) : StrOfIntRaises(found[k][2])
    THEN [raised |-> "ValueError", value |-> <<>>]
    ELSE [raised |-> "", value |-> found]

\* ast.get_source_segment(code, node) for the tokens i .. j of a statement.
SourceSegment(code, st, i, j) ==
    SubSeq(code[st.line], st.toks[i].at, st.toks[j].end)

RECURSIVE DropSpaces(_)
DropSpaces(ps) ==
    IF ps # <<>> /\ Head(ps) \in Spaces THEN DropSpaces(Tail(ps)) ELSE ps

\* re.sub(r'\s+', ' ', stmt)
collapse_spaces(ps) ==
    IF ps = <<>> THEN <<>>
    ELSE IF Head(ps) \in Spaces THEN <<" ">> \o CollapseSpaces(DropSpaces(ps))
    ELSE <<Head(ps)>> \o CollapseSpaces(Tail(ps))

RECURSIVE DropTrailingSpaces(_)
DropTrailingSpaces(ps) ==
    IF ps # <<>> /\ ps[Len(ps)] \in Spaces
    THEN DropTrailingSpaces(SubSeq(ps, 1, Len(ps) - 1)) ELSE ps

\* str.strip()
str_strip(ps) == DropTrailingSpaces(DropSpaces(ps))

\* A wrong normalisation: the text as it is.
AsWritten(stmt) == stmt

normalize(stmt) == Strip(CollapseSpaces(stmt))

\* The substantive statements, as (text, line) pairs in walk order.
duplication_candidates(tree, code) ==
    LET w == Walk(tree) IN
    Flatten([k \in 1..Len(w) |->
        LET stmt == Strip(SourceSegment(code, w[k], 1, Len(w[k].toks))) IN
        IF w[k].kind \in {"expr", "assign"} /\ CharLen(stmt) > 20
        THEN <<<<stmt, w[k].line>>>> ELSE <<>>])

\* The loop over the statements: seen maps a normalized text to the line
\* that is compared against, found holds the findings so far.
find_duplicates(statements, seen, found) ==
    IF statements = <<>> THEN found
    ELSE LET normalized == Normalized(Head(statements)[1])
             line       == Head(statements)[2] IN
         IF HasKey(seen, normalized) /\ Get(seen, normalized) # line
         THEN FindDuplicates(Tail(statements), seen,
                Append(found, <<"Similar code at lines",
                                Get(seen, normalized), "and", line>>))
         ELSE FindDuplicates(Tail(statements),
                Put(seen, normalized, line), found)

_find_duplicated_code(tree, code) ==
    FindDuplicates(DuplicationCandidates(tree, code), <<>>, <<>>)

\* ast.get_docstring(node) is a string that is not empty: the block of
\* statement k starts with an expression statement that is one str
\* literal (no bytes, no f-string) holding more than blanks.
has_docstring(tree, code, k) ==
    /\ k < Len(tree)
    /\ tree[k + 1].depth = tree[k].depth + 1
    /\ tree[k + 1].kind = "expr"
    /\ Len(tree[k + 1].toks) = 1
    /\ tree[k + 1].toks[1].ty = "str"
    /\ tree[k + 1].toks[1].v \in {"", "r", "u"}
    /\ LET tk == tree[k + 1].toks[1]
           ln == code[tree[k + 1].line] IN
       \E m \in (tk.at + 1)..(tk.end - 1) : ln[m] \notin Spaces \cup {Quote}

_find_missing_docstrings(tree, code) ==
    LET ix == WalkIndex(tree) IN
    Flatten([k \in 1..Len(ix) |->
        IF /\ tree[ix[k]].kind = "def"
           /\ ~HasDocstring(tree, code, ix[k])
           /\ ~StartsWithUnderscore(tree[ix[k]].toks[2].v)
        THEN <<<<"Function", tree[ix[k]].toks[2].v, "at line",
                 tree[ix[k]].line, "is missing a docstring">>>>
        ELSE <<>>])

_find_excessive_line_length(code) ==
    Flatten([k \in 1..Len(code) |->
        IF CharLen(code[k]) > 100
        THEN <<<<"Line", k, "is", CharLen(code[k]),
                 "characters long (exceeds 100 characters)">>>>
        ELSE <<>>])

\* len(node.args.args) of a def statement.
args_count(st) == Len(NamesIn(st.toks, 4, Len(st.toks) - 2))

_find_too_many_arguments(tree) ==
    LET w == Walk(tree) IN
    Flatten([k \in 1..Len(w) |->
        IF w[k].kind = "def" /\ ArgsCount(w[k]) > 5
        THEN <<<<"Function", w[k].toks[2].v, "at line", w[k].line, "has",
                 ArgsCount(w[k]), "parameters (exceeds 5)">>>>
        ELSE <<>>])

\* The statement at position j lies inside a function definition.
inside_def(tree, j) ==
    \E k \in 1..Len(tree) : tree[k].kind = "def" /\ j \in InBlock(tree, k)

_find_global_variables(tree) ==
    LET ix == WalkIndex(tree)
        module_level_vars ==
            PutAll(<<>>, Flatten([k \in 1..Len(ix) |->
                LET var_name == tree[ix[k]].toks[1].v IN
                IF /\ tree[ix[k]].kind = "assign"
                   /\ ~InsideDef(tree, ix[k])
                   /\ ~StartsWithUnderscore(var_name)
                   /\ ~IsUpperName(var_name)
                THEN <<<<var_name, tree[ix[k]].line>>>> ELSE <<>>]))
        \* the global statements inside the function at position f
        GlobalsIn(f) ==
            Flatten([k \in 1..Len(ix) |->
                IF ix[k] \in InBlock(tree, f) /\ tree[ix[k]].kind = "global"
                THEN <<<<"Global variable", tree[ix[k]].toks[2].v,
                         "used in function", tree[f].toks[2].v,
                         "at line", tree[ix[k]].line>>>>
                ELSE <<>>])
    IN
    Flatten([k \in 1..Len(ix) |->
        IF tree[ix[k]].kind = "def" THEN GlobalsIn(ix[k]) ELSE <<>>])
    \o [k \in 1..Len(module_level_vars) |->
          <<"Module-level variable", module_level_vars[k][1],
            "declared at line", module_level_vars[k][2]>>]

\* analyze_code(code): the findings by category; or the one category
\* "Syntax Errors" or "Errors".
analyze_code(code) ==
    LET parsed     == Parse(code)
        tree       == parsed.stmts
        used_names == GetUsedNames(tree)
        variables  == GetVariables(tree)
        magic      == FindMagicNumbers(tree)
    IN
    IF parsed.err = "SyntaxError"
    THEN [c \in {"Syntax Errors"} |-> <<<<"Line", parsed.line, "SyntaxError">>>>]
    ELSE IF parsed.err # "" THEN [c \in {"Errors"} |-> <<parsed.err>>]
    ELSE IF magic.raised # "" THEN [c \in {"Errors"} |-> <<magic.raised>>]
    ELSE [c \in Categories |->
           CASE c = "Unused Imports" ->
                    FindUnusedImports(GetImports(tree), used_names)
             [] c = "Unused Variables" ->
                    FindUnusedVariables(variables, used_names)
             [] c = "Complex Expressions" -> FindComplexExpressions(tree)
             [] c = "Nested Loops" -> FindNestedLoops(tree)
             [] c = "Long Functions" -> FindLongFunctions(tree)
             [] c = "Code Duplication" -> FindDuplicatedCode(tree, code)
             [] c = "Poorly Named Variables" ->
                    FindPoorVariableNames(variables)
             [] c = "Magic Numbers" -> magic.value
             [] c = "Missing Docstrings" -> FindMissingDocstrings(tree, code)
             [] c = "Excessive Line Length" -> FindExcessiveLineLength(code)
             [] c = "Too Many Arguments" -> FindTooManyArguments(tree)
             [] c = "Global Variables" -> FindGlobalVariables(tree)]

(* ------------------------------------------------------------------ *)
(* code_refactor.py: the Renamer                                       *)
(* ------------------------------------------------------------------ *)

_is_poor_name(name) ==
    IF name \in LoopVariableNames \/ StartsWithUnderscore(name) THEN FALSE
    ELSE IF Len(name) = 1 /\ name \notin LoopVariableNames THEN TRUE
    ELSE IF name \in {"temp", "tmp", "var", "foo", "bar", "data"} THEN TRUE
    ELSE IF Len(name) <= 2 /\ ~StartsWithUnderscore(name) THEN TRUE
    ELSE FALSE

\* The class of node.value of an assignment, as far as the Renamer tests
\* it: ast.Num, ast.Str, ast.List, ast.Dict, or another.
value_kind(st) ==
    LET t == st.toks IN
    IF st.lo = st.hi /\ t[st.lo].ty = "num" THEN "Num"
    ELSE IF st.lo = st.hi /\ t[st.lo].ty = "str" /\ t[st.lo].v \in {"", "r", "u"}
         THEN "Str"
    ELSE IF st.hi = st.lo + 1 /\ IsOp(t, st.lo, "[") THEN "List"
    ELSE IF st.hi = st.lo + 1 /\ IsOp(t, st.lo, "{") THEN "Dict"
    ELSE "Other"

\* A wrong suggestion: the name itself.
KeepName(name, node) == name

_suggest_better_name(name, node) ==
    IF name \in {"temp", "tmp"} THEN "temporary_value"
    ELSE IF Len(name) = 1 THEN
         CASE ValueKind(node) = "Num" -> "number_value"
           [] ValueKind(node) = "Str" -> "string_value"
           [] ValueKind(node) = "List" -> "items_list"
           [] ValueKind(node) = "Dict" -> "data_map"
           [] OTHER -> "value"
    ELSE IF name = "var" THEN "variable"
    ELSE IF name = "val" THEN "value"
    ELSE IF name = "arr" THEN "array"
    ELSE IF name = "obj" THEN "object"
    ELSE IF name = "num" THEN "number"
    ELSE IF name = "str" THEN "string"
    ELSE IF name = "dict" THEN "dictionary"
    ELSE IF name = "lst" THEN "list"
    ELSE name \o "_value"

\* The assignments to poor names, in walk order, each with the name
\* suggested for it.
poor_assignments(tree) ==
    LET w == Walk(tree) IN
    Flatten([k \in 1..Len(w) |->
        IF w[k].kind = "assign" /\ IsPoorName(w[k].toks[1].v)
        THEN <<<<w[k].toks[1].v, SuggestBetterName(w[k].toks[1].v, w[k])>>>>
        ELSE <<>>])

\* The rename plan: poor_names[var_name] = better_name for each of them.
rename_plan(tree) == PutAll(<<>>, PoorAssignments(tree))

\* re.sub(r'\b' + old_name + r'\b', new_name, line)
SubWord(line, old_name, new_name) ==
    [k \in 1..Len(line) |-> IF line[k] = old_name THEN new_name ELSE line[k]]

\* The substitutions of the plan applied to one line, one after the other.
sub_all(line, plan) ==
    IF plan = <<>> THEN line
    ELSE SubAll(SubWord(line, Head(plan)[1], Head(plan)[2]), Tail(plan))

rename_variables(code, tree) ==
    LET found      == PoorAssignments(tree)
        poor_names == RenamePlan(tree)
        changes    == [k \in 1..Len(found) |->
                         <<"Renamed variable", found[k][1], "to", found[k][2]>>]
    IN
    IF poor_names # <<>>
    THEN [code |-> [i \in 1..Len(code) |-> SubAll(code[i], poor_names)],
          changes |-> changes]
    ELSE [code |-> code, changes |-> changes]

(* ------------------------------------------------------------------ *)
(* code_refactor.py: the Duplicate-Fragment Extractor                  *)
(* ------------------------------------------------------------------ *)

\* The expression statements whose value is no constant (no number, no
\* string) and whose text is longer than 20 characters, in walk order.
extraction_candidates(code, tree) ==
    LET w == Walk(tree) IN
    Flatten([k \in 1..Len(w) |->
        LET expr_code == Strip(SourceSegment(code, w[k], 1, Len(w[k].toks))) IN
        IF /\ w[k].kind = "expr"
           /\ ~(Len(w[k].toks) = 1 /\ w[k].toks[1].ty \in {"num", "str"}
                /\ w[k].toks[1].v # "f")
           /\ CharLen(expr_code) > 20
        THEN <<expr_code>> ELSE <<>>])

\* Counter(expressions): each text with its count, in first-seen order.
count_all(d, items) ==
    IF items = <<>> THEN d
    ELSE CountAll(Put(d, Head(items),
                      IF HasKey(d, Head(items)) THEN Get(d, Head(items)) + 1
                      ELSE 1),
                  Tail(items))

\* func_def: the lines of "def <name>():\n    <expr>\n".
FuncDef(func_name, expr) ==
    << <<"def", " ", func_name, "(", ")", ":">>, <<IndentUnit>> \o expr, <<>> >>

\* The (expr, func_name, func_def) of each expression that occurs twice or
\* more, after those of acc.  An expression of the model is one line.
funcs_of_repeated(counts, acc) ==
    IF counts = <<>> THEN acc
    ELSE LET expr      == Head(counts)[1]
             func_name == "extracted_function_" \o ToString(Len(acc) + 1) IN
         IF Head(counts)[2] > 1
         THEN ExtractedFuncs(Tail(counts),
                Append(acc, <<expr, func_name, FuncDef(func_name, expr)>>))
         ELSE ExtractedFuncs(Tail(counts), acc)

\* re.match(r'^(import|from)\s+', line)
IsImportLine(line) ==
    Len(line) >= 2 /\ line[1] \in {"import", "from"} /\ line[2] \in Spaces

\* list.insert(at, item), at counted from 0 and clamped to the list.
InsertAt(list, at, item) ==
    LET n == IF at > Len(list) THEN Len(list) ELSE at IN
    SubSeq(list, 1, n) \o <<item>> \o SubSeq(list, n + 1, Len(list))

\* The insertions of the function definitions: every element of lines is
\* a string, of one line or (a func_def) of three.
insert_funcs(lines, import_end, funcs) ==
    IF funcs = <<>> THEN lines
    ELSE InsertFuncs(InsertAt(lines, import_end, Head(funcs)[3]),
                     import_end + (Len(Head(funcs)[3]) - 1) + 1,
                     Tail(funcs))

\* The first position at or after i where the pieces sub start in line, 0
\* when there is none.
RECURSIVE FindSub(_, _, _)
FindSub(line, sub, i) ==
    IF i + Len(sub) - 1 > Len(line) THEN 0
    ELSE IF SubSeq(line, i, i + Len(sub) - 1) = sub THEN i
    ELSE FindSub(line, sub, i + 1)

\* str.replace(old, new) within one line: the occurrences from the left,
\* not overlapping.
replace_in(line, old, new) ==
    LET at == FindSub(line, old, 1) IN
    IF at = 0 THEN line
    ELSE SubSeq(line, 1, at - 1) \o new
         \o ReplaceIn(SubSeq(line, at + Len(old), Len(line)), old, new)

replace_all(text, old, new) ==
    [i \in 1..Len(text) |-> ReplaceIn(text[i], old, new)]

\* The characters of a piece and of a line, one by one.
Chars(piece) == [k \in 1..Len(piece) |-> SubSeq(piece, k, k)]
LineChars(line) == Flatten([k \in 1..Len(line) |-> Chars(line[k])])

\* '\n'.join(s) of a string s: its characters, one to a line, so that
\* every line break of s gives two empty lines.
join_characters(text) ==
    IF text = <<>> THEN <<>>
    ELSE LET chars == LineChars(Head(text)) IN
         [k \in 1..Len(chars) |-> <<chars[k]>>]
         \o (IF Len(text) > 1 THEN << <<>>, <<>> >> ELSE <<>>)
         \o JoinCharacters(Tail(text))

\* The loop that replaces the extracted code: lines is a list of strings
\* before the first round and one string after it.
apply_extractions(text, funcs, first) ==
    IF funcs = <<>> THEN text
    ELSE LET code_str == IF first THEN text ELSE JoinCharacters(text) IN
         ApplyExtractions(
             ReplaceAll(code_str, Head(funcs)[1],
                        <<Head(funcs)[2], "(", ")">>),
             Tail(funcs), FALSE)

extract_functions(code, tree) ==
    LET expr_counts     == CountAll(<<>>, ExtractionCandidates(code, tree))
        extracted_funcs == ExtractedFuncs(expr_counts, <<>>)
        changes == [k \in 1..Len(extracted_funcs) |->
                      <<"Extracted repeated code into function",
                        extracted_funcs[k][2]>>]
        import_lines == {i \in 1..Len(code) : IsImportLine(code[i])}
        import_end == IF import_lines = {} THEN 0 ELSE Max(import_lines)
        lines == InsertFuncs([i \in 1..Len(code) |-> <<code[i]>>],
                             import_end, extracted_funcs)
    IN
    IF extracted_funcs # <<>>
    THEN [code |-> ApplyExtractions(Flatten(lines), extracted_funcs, TRUE),
          changes |-> changes]
    ELSE [code |-> code, changes |-> changes]

(* ------------------------------------------------------------------ *)
(* code_refactor.py: the passes that only report                       *)
(* ------------------------------------------------------------------ *)

simplify_expressions(code, tree) ==
    LET ix == WalkIndex(tree) IN
    [code |-> code,
     changes |->
       Flatten([k \in 1..Len(ix) |->
          IF BoolOpValues(tree[ix[k]]) > 3
          THEN <<<<"Identified complex boolean expression that could be simplified">>>>
          ELSE <<>>])
       \o
       Flatten([k \in 1..Len(ix) |->
          IF /\ tree[ix[k]].kind = "for"
             /\ Cardinality(ChildStmts(tree, ix[k])) = 1
             /\ \A j \in ChildStmts(tree, ix[k]) : tree[j].kind = "for"
          THEN <<<<"Identified nested loop that could be simplified or refactored">>>>
          ELSE <<>>])]

\* blocks: the text of each assigned value with the names it is assigned to.
append_all(d, items) ==
    IF items = <<>> THEN d
    ELSE AppendAll(Put(d, Head(items)[1],
                       IF HasKey(d, Head(items)[1])
                       THEN Append(Get(d, Head(items)[1]), Head(items)[2])
                       ELSE <<Head(items)[2]>>),
                   Tail(items))

apply_dry_principles(code, tree) ==
    LET w == Walk(tree)
        blocks == AppendAll(<<>>, Flatten([k \in 1..Len(w) |->
            IF w[k].kind = "assign"
            THEN <<<<SourceSegment(code, w[k], w[k].lo, w[k].hi),
                     w[k].toks[1].v>>>>
            ELSE <<>>]))
    IN
    [code |-> code,
     changes |->
       Flatten([k \in 1..Len(blocks) |->
          IF Len(blocks[k][2]) > 1 /\ CharLen(Strip(blocks[k][1])) > 5
          THEN <<<<"Identified repeated assignment of", blocks[k][1],
                   "to variables", blocks[k][2]>>>>
          ELSE <<>>])]

(* ------------------------------------------------------------------ *)
(* code_cleaner.py.  The formatters (isort, black, autopep8) are       *)
(* collaborators outside the repository: each either fails, and the    *)
(* text stays as it is, or normalises the text; of the normalisation   *)
(* the model keeps what shows in its sub-language.                     *)
(* ------------------------------------------------------------------ *)

\* The module names of the model, in alphabetical order.
ModuleOrder == <<"json", "os", "sys">>
module_rank(line) ==
    IF Len(line) >= 3 /\ \E k \in 1..Len(ModuleOrder) : ModuleOrder[k] = line[3]
    THEN CHOOSE k \in 1..Len(ModuleOrder) : ModuleOrder[k] = line[3]
    ELSE Len(ModuleOrder) + 1

\* The key isort sorts a top-level import line by: plain imports before
\* from-imports, then by module.
sort_key(line) ==
    (IF line[1] = "import" THEN 0 ELSE Len(ModuleOrder) + 2) + ModuleRank(line)

\* line inserted into the sorted run, after the lines of no greater key.
insert_sorted(run, line) ==
    IF run = <<>> THEN <<line>>
    ELSE IF ImportKey(Head(run)) <= ImportKey(line)
         THEN <<Head(run)>> \o InsertSorted(Tail(run), line)
    ELSE <<line>> \o run

\* isort.code(code): every run of adjacent top-level import lines, sorted.
isort_from(code, run) ==
    IF code = <<>> THEN run
    ELSE IF IsImportLine(Head(code))
         THEN IsortFrom(Tail(code), InsertSorted(run, Head(code)))
    ELSE run \o <<Head(code)>> \o IsortFrom(Tail(code), <<>>)

isort_code(code) == IsortFrom(code, <<>>)

sort_imports(code, fails) == IF fails THEN code ELSE IsortCode(code)

\* One line as black writes it: the indentation kept, every later run of
\* blanks one blank, no blank at the end.
black_line(line) ==
    LET indent == SubSeq(line, 1, Len(line) - Len(DropSpaces(line))) IN
    IF IsBlank(line) THEN <<>>
    ELSE indent \o Normalized(DropSpaces(line))

RECURSIVE DropTrailingEmpty(_)
DropTrailingEmpty(code) ==
    IF code # <<>> /\ code[Len(code)] = <<>>
    THEN DropTrailingEmpty(SubSeq(code, 1, Len(code) - 1)) ELSE code

\* black.format_str(code): the lines normalised and the text ended by one
\* line break; a text of blank lines becomes the empty text.
format_str(code) ==
    LET lines == DropTrailingEmpty([i \in 1..Len(code) |-> BlackLine(code[i])]) IN
    IF lines = <<>> THEN << <<>> >> ELSE Append(lines, <<>>)

format_with_black(code, fails) == IF fails THEN code ELSE BlackFormatStr(code)

\* '\n'.join(lines), as the lines of the text it is: those of no lines
\* is the empty text, of one empty line.
JoinLines(lines) == IF lines = <<>> THEN << <<>> >> ELSE lines

\* The lines of code whose numbers are not in lines_to_remove.
remove_lines(code, lines_to_remove) ==
    JoinLines(Flatten([i \in 1..Len(code) |->
        IF i \in lines_to_remove THEN <<>> ELSE <<code[i]>>]))

\* The (import_name, alias, lineno) of the imports of one statement.
cleaner_imports_of(st) ==
    LET t == st.toks IN
    IF st.kind = "import" THEN
        <<[name |-> NamesIn(t, 2, ImportModuleEnd(t)),
           alias |-> IF IsKw(t, Len(t) - 1, "as") THEN t[Len(t)].v ELSE "",
           line |-> st.line]>>
    ELSE IF st.kind = "from" THEN
        LET k     == ImportAt(t)
            names == NamesIn(t, k + 1, Len(t)) IN
        [m \in 1..Len(names) |->
            [name |-> NamesIn(t, 2, k - 1) \o <<names[m]>>,
             alias |-> "", line |-> st.line]]
    ELSE <<>>

\* The names read, and the names that are the base of an attribute read.
cleaner_used_names(tree) ==
    {u[1] : u \in GetUsedNames(tree)}

remove_unused_imports(code) ==
    LET parsed == Parse(code)
        tree   == parsed.stmts
        w      == Walk(tree)
        imports == Flatten([k \in 1..Len(w) |-> CleanerImportsOf(w[k])])
        used_names == CleanerUsedNames(tree)
        lines_to_remove ==
            {imports[k].line : k \in
                {k \in 1..Len(imports) :
                    LET name_to_check ==
                          IF imports[k].alias # "" THEN imports[k].alias
                          ELSE imports[k].name[Len(imports[k].name)] IN
                    name_to_check \notin used_names}}
    IN
    IF ~parsed.ok THEN code
    ELSE IF lines_to_remove # {} THEN RemoveLines(code, lines_to_remove)
    ELSE code

\* re.match(r'^\s*[a-zA-Z_][a-zA-Z0-9_]*\s*=', line)
looks_like_assignment(line) ==
    LET rest == DropSpaces(line) IN
    /\ rest # <<>>
    /\ IsWord(Head(rest))
    /\ Head(rest) \notin Numbers
    /\ DropSpaces(Tail(rest)) # <<>>
    /\ Head(DropSpaces(Tail(rest))) = "="

remove_unused_variables(code) ==
    LET parsed    == Parse(code)
        tree      == parsed.stmts
        variables == GetVariables(tree)
        used_vars == {u[1] : u \in {u \in GetUsedNames(tree) : Len(u) = 1}}
        lines_to_check ==
            {variables[k][2] : k \in
                {k \in 1..Len(variables) :
                    /\ variables[k][1] \notin used_vars
                    /\ ~StartsWithUnderscore(variables[k][1])}}
    IN
    IF ~parsed.ok THEN code
    ELSE IF lines_to_check # {}
    THEN JoinLines(Flatten([i \in 1..Len(code) |->
            IF i \in lines_to_check /\ LooksLikeAssignment(code[i])
            THEN <<>> ELSE <<code[i]>>]))
    ELSE code

(* ------------------------------------------------------------------ *)
(* diff_generator.py.  difflib.ndiff is the standard library's: the    *)
(* model follows difflib.Differ.compare, with sequences shorter than   *)
(* the 200 elements from which SequenceMatcher drops popular elements. *)
(* Positions count from 0 and ranges are half open, as in difflib.     *)
(* ------------------------------------------------------------------ *)

\* A wrong splitlines: all the lines that split('\n') gives.
SplitAtBreaks(text) == text

\* str.splitlines(): the lines, without the empty one that follows a
\* final line break.
SplitLines(text) ==
    IF text[Len(text)] = <<>> THEN SubSeq(text, 1, Len(text) - 1) ELSE text

\* The length of the longest common run of a from i and b from j that
\* holds no junk.
RECURSIVE RunLen(_, _, _, _, _, _, _)
RunLen(a, b, i, j, ahi, bhi, junk) ==
    IF i < ahi /\ j < bhi /\ a[i + 1] = b[j + 1] /\ b[j + 1] \notin junk
    THEN 1 + RunLen(a, b, i + 1, j + 1, ahi, bhi, junk)
    ELSE 0

\* The block m grown by the matching junk before it.
RECURSIVE ExtendBack(_, _, _, _, _, _)
ExtendBack(a, b, alo, blo, junk, m) ==
    IF m[1] > alo /\ m[2] > blo /\ b[m[2]] \in junk /\ a[m[1]] = b[m[2]]
    THEN ExtendBack(a, b, alo, blo, junk, <<m[1] - 1, m[2] - 1, m[3] + 1>>)
    ELSE m

\* The block m grown by the matching junk after it.
RECURSIVE ExtendForward(_, _, _, _, _, _)
ExtendForward(a, b, ahi, bhi, junk, m) ==
    IF /\ m[1] + m[3] < ahi
       /\ m[2] + m[3] < bhi
       /\ b[m[2] + m[3] + 1] \in junk
       /\ a[m[1] + m[3] + 1] = b[m[2] + m[3] + 1]
    THEN ExtendForward(a, b, ahi, bhi, junk, <<m[1], m[2], m[3] + 1>>)
    ELSE m

\* SequenceMatcher.find_longest_match: the longest block without junk, of
\* those the one that starts earliest in a, of those the one that starts
\* earliest in b, <<alo, blo, 0>> when nothing matches; then grown by the
\* matching junk on either side.
find_longest_match(a, b, alo, ahi, blo, bhi, junk) ==
    LET cands == {<<i, j>> \in (alo..(ahi - 1)) \X (blo..(bhi - 1)) :
                     a[i + 1] = b[j + 1] /\ b[j + 1] \notin junk}
        size(c) == RunLen(a, b, c[1], c[2], ahi, bhi, junk)
        best == IF cands = {} THEN <<alo, blo>>
                ELSE CHOOSE c \in cands :
                       \A d \in cands :
                          \/ size(c) > size(d)
                          \/ size(c) = size(d) /\ c[1] < d[1]
                          \/ size(c) = size(d) /\ c[1] = d[1] /\ c[2] <= d[2]
        free == <<best[1], best[2], IF cands = {} THEN 0 ELSE size(best)>>
    IN
    ExtendForward(a, b, ahi, bhi, junk, ExtendBack(a, b, alo, blo, junk, free))

\* SequenceMatcher.get_matching_blocks, without the final sentinel.
get_matching_blocks(a, b, alo, ahi, blo, bhi, junk) ==
    LET m == FindLongestMatch(a, b, alo, ahi, blo, bhi, junk)
        i == m[1]
        j == m[2]
        k == m[3]
    IN
    IF k = 0 THEN <<>>
    ELSE (IF alo < i /\ blo < j
          THEN MatchingBlocks(a, b, alo, i, blo, j, junk) ELSE <<>>)
         \o <<m>>
         \o (IF i + k < ahi /\ j + k < bhi
             THEN MatchingBlocks(a, b, i + k, ahi, j + k, bhi, junk) ELSE <<>>)

\* SequenceMatcher.get_opcodes: <<tag, i1, i2, j1, j2>> from the blocks.
opcodes_from(blocks, i, j) ==
    IF blocks = <<>> THEN <<>>
    ELSE LET ai   == Head(blocks)[1]
             bj   == Head(blocks)[2]
             size == Head(blocks)[3]
             tag  == IF i < ai /\ j < bj THEN "replace"
                     ELSE IF i < ai THEN "delete"
                     ELSE IF j < bj THEN "insert"
                     ELSE ""
         IN (IF tag # "" THEN <<<<tag, i, ai, j, bj>>>> ELSE <<>>)
            \o (IF size > 0
                THEN <<<<"equal", ai, ai + size, bj, bj + size>>>> ELSE <<>>)
            \o OpcodesFrom(Tail(blocks), ai + size, bj + size)

get_opcodes(a, b) ==
    OpcodesFrom(Append(MatchingBlocks(a, b, 0, Len(a), 0, Len(b), {}),
                       <<Len(a), Len(b), 0>>), 0, 0)

\* A line of the delta: its two-character tag and the line itself.
DiffLine(tag, line) == <<tag>> \o line

\* Differ._dump
Dump(tag, x, lo, hi) == [k \in 1..(hi - lo) |-> DiffLine(tag, x[lo + k])]

\* Differ._plain_replace
_plain_replace(a, alo, ahi, b, blo, bhi) ==
    IF bhi - blo < ahi - alo
    THEN Dump("+ ", b, blo, bhi) \o Dump("- ", a, alo, ahi)
    ELSE Dump("- ", a, alo, ahi) \o Dump("+ ", b, blo, bhi)

\* The sizes of the blocks, added up.
RECURSIVE BlocksSize(_)
BlocksSize(blocks) ==
    IF blocks = <<>> THEN 0 ELSE Head(blocks)[3] + BlocksSize(Tail(blocks))

\* difflib.IS_CHARACTER_JUNK: a blank or a tab.
CharacterJunk == {" ", "\t"}

\* The number of characters of line x that the SequenceMatcher of
\* _fancy_replace matches with characters of line y.
matched_chars(x, y) ==
    LET xs == LineChars(x)
        ys == LineChars(y)
        blocks == MatchingBlocks(xs, ys, 0, Len(xs), 0, Len(ys), CharacterJunk)
    IN BlocksSize(blocks)

\* SequenceMatcher.ratio() of two lines, as the fraction <<2 * M, T>>.
ratio(x, y) == <<2 * MatchedChars(x, y), CharLen(x) + CharLen(y)>>

\* r > s, for fractions of positive denominator.
RatioGreater(r, s) == r[1] * s[2] > s[1] * r[2]

\* The search of _fancy_replace for the best pair of similar lines: j
\* over b, i over a; best is <<ratio, i, j>> and eq the first pair of
\* equal lines (<<-1, -1>> when none was met).
best_pair(a, alo, ahi, b, blo, bhi, i, j, best, eq) ==
    IF j >= bhi THEN <<best, eq>>
    ELSE IF i >= ahi THEN BestPair(a, alo, ahi, b, blo, bhi, alo, j + 1, best, eq)
    ELSE IF a[i + 1] = b[j + 1]
         THEN BestPair(a, alo, ahi, b, blo, bhi, i + 1, j,
                       best, IF eq[1] = -1 THEN <<i, j>> ELSE eq)
    ELSE IF CharLen(a[i + 1]) + CharLen(b[j + 1]) > 0
            /\ RatioGreater(Ratio(a[i + 1], b[j + 1]), best[1])
         THEN BestPair(a, alo, ahi, b, blo, bhi, i + 1, j,
                       <<Ratio(a[i + 1], b[j + 1]), i, j>>, eq)
    ELSE BestPair(a, alo, ahi, b, blo, bhi, i + 1, j, best, eq)

\* The "? " line that follows a line of a similar pair: there is one when
\* some character of the line is not among the matched ones.
hint_line(x, matched) ==
    IF matched < CharLen(x) THEN <<DiffLine("? ", <<"^">>)>> ELSE <<>>

\* Differ._fancy_replace and Differ._fancy_helper
_fancy_helper(a, alo, ahi, b, blo, bhi) ==
    IF alo < ahi THEN
        IF blo < bhi THEN FancyReplace(a, alo, ahi, b, blo, bhi)
        ELSE Dump("- ", a, alo, ahi)
    ELSE IF blo < bhi THEN Dump("+ ", b, blo, bhi)
    ELSE <<>>

_fancy_replace(a, alo, ahi, b, blo, bhi) ==
    LET found  == BestPair(a, alo, ahi, b, blo, bhi, alo, blo,
                           <<<<74, 100>>, -1, -1>>, <<-1, -1>>)
        best   == found[1]
        eq     == found[2]
        \* best_ratio < cutoff
        below  == 4 * best[1][1] < 3 * best[1][2]
        best_i == IF below THEN eq[1] ELSE best[2]
        best_j == IF below THEN eq[2] ELSE best[3]
        matched == MatchedChars(a[best_i + 1], b[best_j + 1])
    IN
    IF below /\ eq[1] = -1 THEN PlainReplace(a, alo, ahi, b, blo, bhi)
    ELSE FancyHelper(a, alo, best_i, b, blo, best_j)
         \o (IF below
             THEN <<DiffLine("  ", a[best_i + 1])>>
             ELSE <<DiffLine("- ", a[best_i + 1])>>
                  \o Hint(a[best_i + 1], matched)
                  \o <<DiffLine("+ ", b[best_j + 1])>>
                  \o Hint(b[best_j + 1], matched))
         \o FancyHelper(a, best_i + 1, ahi, b, best_j + 1, bhi)

\* difflib.ndiff(a, b)
ndiff(a, b) ==
    LET ops == GetOpcodes(a, b) IN
    Flatten([k \in 1..Len(ops) |->
        LET op == ops[k] IN
        CASE op[1] = "replace" -> FancyReplace(a, op[2], op[3], b, op[4], op[5])
          [] op[1] = "delete" -> Dump("- ", a, op[2], op[3])
          [] op[1] = "insert" -> Dump("+ ", b, op[4], op[5])
          [] op[1] = "equal" -> Dump("  ", a, op[2], op[3])])

\* html.escape(s)
HtmlEscape(line) ==
    [k \in 1..Len(line) |-> IF line[k] = Quote THEN "&quot;" ELSE line[k]]

Div(class, line) == [class |-> class, text |-> HtmlEscape(line)]

\* A wrong loop: one with no case for the "? " lines, which it takes for
\* unchanged lines.
ClassifiedWithHints(diff_lines) ==
    Flatten([k \in 1..Len(diff_lines) |->
        LET line == diff_lines[k] IN
        IF Head(line) = "+ " THEN <<Div("diff-added", Tail(line))>>
        ELSE IF Head(line) = "- " THEN <<Div("diff-removed", Tail(line))>>
        ELSE <<Div("diff-unchanged",
                   IF Head(line) = "  " THEN Tail(line) ELSE line)>>])

\* The loop of highlight_diff: one classified line for every line of the
\* delta but the "? " lines.
classified_lines(diff_lines) ==
    Flatten([k \in 1..Len(diff_lines) |->
        LET line == diff_lines[k] IN
        IF Head(line) = "+ " THEN <<Div("diff-added", Tail(line))>>
        ELSE IF Head(line) = "- " THEN <<Div("diff-removed", Tail(line))>>
        ELSE IF Head(line) = "? " THEN <<>>
        ELSE <<Div("diff-unchanged",
                   IF Head(line) = "  " THEN Tail(line) ELSE line)>>])

\* A line of markup that stands for no line of the delta.
Markup(text) == [class |-> "", text |-> <<text>>]

\* highlight_diff: the style sheet and the opening of the container, the
\* classified lines, the closing of the container.
highlight_diff(diff_lines) ==
    <<Markup("<style>"),
      Markup(".diff-container { font-family: monospace; white-space: pre; }"),
      Markup(".diff-added { background-color: #e6ffed; color: #24292e; }"),
      Markup(".diff-removed { background-color: #ffeef0; color: #24292e; }"),
      Markup(".diff-unchanged { color: #24292e; }"),
      Markup("</style>"),
      Markup("<div class=\"diff-container\">")>>
    \o ClassifiedLines(diff_lines)
    \o <<Markup("</div>")>>

generate_diff(original_code, refactored_code) ==
    HighlightDiff(Ndiff(SplitLines(original_code), SplitLines(refactored_code)))

(* ------------------------------------------------------------------ *)
(* The calls.  A call ends by returning a value or by raising: ret      *)
(* holds which, and what.                                               *)
(* ------------------------------------------------------------------ *)

NoReturn == [kind |-> "none", value |-> <<>>]
Returned(value) == [kind |-> "returned", value |-> value]
Raised(exc) == [kind |-> "raised", value |-> exc]

\* A wrong clean_code: one that does not build the tree first.
CleanWithoutParse(code, isort_fails, black_fails) ==
    Returned(RemoveUnusedVariables(RemoveUnusedImports(
        FormatWithBlack(SortImports(code, isort_fails), black_fails))))

\* clean_code.  ast.parse is guarded against SyntaxError only; black's
\* wrapper never raises, so the autopep8 fall-back is never taken.
clean_code(code, isort_fails, black_fails) ==
    LET parsed == Parse(code) IN
    IF parsed.err = "SyntaxError" THEN Returned(code)
    ELSE IF parsed.err # "" THEN Raised(parsed.err)
    ELSE Returned(RemoveUnusedVariables(RemoveUnusedImports(
             FormatWithBlack(SortImports(code, isort_fails), black_fails))))

\* A wrong failure entry: every failure is reported as one of another kind.
ErrorEntryOnly(err) == <<"Refactoring error", err>>

\* The entry of the change list with which refactor_code reports a
\* failure.
FailureEntry(err) ==
    IF err = "SyntaxError" THEN <<"Could not refactor due to syntax errors">>
    ELSE <<"Refactoring error", err>>

IsFailureEntry(entry) ==
    Head(entry) \in {"Could not refactor due to syntax errors", "Refactoring error"}

\* The definition that each name of the list at the head of the module
\* stands for.
Call(f, args) ==
    CASE f = "next_token" -> next_token(args[1], args[2])
      [] f = "tokenize" -> tokenize(args[1])
      [] f = "args_end" -> args_end(args[1], args[2])
      [] f = "term_end" -> term_end(args[1], args[2])
      [] f = "sum_end" -> sum_end(args[1], args[2])
      [] f = "arg_list_end" -> arg_list_end(args[1], args[2])
      [] f = "expr_end" -> expr_end(args[1], args[2])
      [] f = "is_expr" -> is_expr(args[1], args[2], args[3])
      [] f = "is_name_list" -> is_name_list(args[1], args[2], args[3])
      [] f = "is_dotted" -> is_dotted(args[1], args[2], args[3])
      [] f = "import_at" -> import_at(args[1])
      [] f = "statement" -> statement(args[1])
      [] f = "parse_lines" -> parse_lines(args[1], args[2], args[3], args[4], args[5])
      [] f = "ast_parse" -> ast_parse(args[1])
      [] f = "syntactically_valid" -> syntactically_valid(args[1])
      [] f = "walk_from" -> walk_from(args[1], args[2])
      [] f = "ast_walk" -> ast_walk(args[1])
      [] f = "child_stmts" -> child_stmts(args[1], args[2])
      [] f = "load_at" -> load_at(args[1], args[2])
      [] f = "attr_at" -> attr_at(args[1], args[2])
      [] f = "stmt_used_names" -> stmt_used_names(args[1])
      [] f = "dict_set" -> dict_set(args[1], args[2], args[3])
      [] f = "put_all" -> put_all(args[1], args[2])
      [] f = "import_module_end" -> import_module_end(args[1])
      [] f = "imports_of" -> imports_of(args[1])
      [] f = "_get_imports" -> _get_imports(args[1])
      [] f = "_get_used_names" -> _get_used_names(args[1])
      [] f = "import_is_used" -> import_is_used(args[1], args[2])
      [] f = "_find_unused_imports" -> _find_unused_imports(args[1], args[2])
      [] f = "_get_variables" -> _get_variables(args[1])
      [] f = "_find_unused_variables" -> _find_unused_variables(args[1], args[2])
      [] f = "bool_op_values" -> bool_op_values(args[1])
      [] f = "_check_nested_loops" -> _check_nested_loops(args[1], args[2], args[3])
      [] f = "walk_index" -> walk_index(args[1])
      [] f = "complex_expr" -> complex_expr(args[1])
      [] f = "nested_loops" -> nested_loops(args[1])
      [] f = "end_line" -> end_line(args[1], args[2])
      [] f = "_find_long_functions" -> _find_long_functions(args[1])
      [] f = "_find_poor_variable_names" -> _find_poor_variable_names(args[1])
      [] f = "not_allowed" -> not_allowed(args[1])
      [] f = "magic_tokens" -> magic_tokens(args[1])
      [] f = "_find_magic_numbers" -> _find_magic_numbers(args[1])
      [] f = "collapse_spaces" -> collapse_spaces(args[1])
      [] f = "str_strip" -> str_strip(args[1])
      [] f = "normalize" -> normalize(args[1])
      [] f = "duplication_candidates" -> duplication_candidates(args[1], args[2])
      [] f = "find_duplicates" -> find_duplicates(args[1], args[2], args[3])
      [] f = "_find_duplicated_code" -> _find_duplicated_code(args[1], args[2])
      [] f = "has_docstring" -> has_docstring(args[1], args[2], args[3])
      [] f = "_find_missing_docstrings" -> _find_missing_docstrings(args[1], args[2])
      [] f = "_find_excessive_line_length" -> _find_excessive_line_length(args[1])
      [] f = "args_count" -> args_count(args[1])
      [] f = "_find_too_many_arguments" -> _find_too_many_arguments(args[1])
      [] f = "inside_def" -> inside_def(args[1], args[2])
      [] f = "_find_global_variables" -> _find_global_variables(args[1])
      [] f = "analyze_code" -> analyze_code(args[1])
      [] f = "_is_poor_name" -> _is_poor_name(args[1])
      [] f = "value_kind" -> value_kind(args[1])
      [] f = "_suggest_better_name" -> _suggest_better_name(args[1], args[2])
      [] f = "poor_assignments" -> poor_assignments(args[1])
      [] f = "rename_plan" -> rename_plan(args[1])
      [] f = "sub_all" -> sub_all(args[1], args[2])
      [] f = "rename_variables" -> rename_variables(args[1], args[2])
      [] f = "extraction_candidates" -> extraction_candidates(args[1], args[2])
      [] f = "count_all" -> count_all(args[1], args[2])
      [] f = "funcs_of_repeated" -> funcs_of_repeated(args[1], args[2])
      [] f = "insert_funcs" -> insert_funcs(args[1], args[2], args[3])
      [] f = "replace_in" -> replace_in(args[1], args[2], args[3])
      [] f = "replace_all" -> replace_all(args[1], args[2], args[3])
      [] f = "join_characters" -> join_characters(args[1])
      [] f = "apply_extractions" -> apply_extractions(args[1], args[2], args[3])
      [] f = "extract_functions" -> extract_functions(args[1], args[2])
      [] f = "simplify_expressions" -> simplify_expressions(args[1], args[2])
      [] f = "append_all" -> append_all(args[1], args[2])
      [] f = "apply_dry_principles" -> apply_dry_principles(args[1], args[2])
      [] f = "module_rank" -> module_rank(args[1])
      [] f = "sort_key" -> sort_key(args[1])
      [] f = "insert_sorted" -> insert_sorted(args[1], args[2])
      [] f = "isort_from" -> isort_from(args[1], args[2])
      [] f = "isort_code" -> isort_code(args[1])
      [] f = "sort_imports" -> sort_imports(args[1], args[2])
      [] f = "black_line" -> black_line(args[1])
      [] f = "format_str" -> format_str(args[1])
      [] f = "format_with_black" -> format_with_black(args[1], args[2])
      [] f = "remove_lines" -> remove_lines(args[1], args[2])
      [] f = "cleaner_imports_of" -> cleaner_imports_of(args[1])
      [] f = "cleaner_used_names" -> cleaner_used_names(args[1])
      [] f = "remove_unused_imports" -> remove_unused_imports(args[1])
      [] f = "looks_like_assignment" -> looks_like_assignment(args[1])
      [] f = "remove_unused_variables" -> remove_unused_variables(args[1])
      [] f = "find_longest_match" -> find_longest_match(args[1], args[2], args[3], args[4], args[5], args[6], args[7])
      [] f = "get_matching_blocks" -> get_matching_blocks(args[1], args[2], args[3], args[4], args[5], args[6], args[7])
      [] f = "opcodes_from" -> opcodes_from(args[1], args[2], args[3])
      [] f = "get_opcodes" -> get_opcodes(args[1], args[2])
      [] f = "_plain_replace" -> _plain_replace(args[1], args[2], args[3], args[4], args[5], args[6])
      [] f = "matched_chars" -> matched_chars(args[1], args[2])
      [] f = "ratio" -> ratio(args[1], args[2])
      [] f = "best_pair" -> best_pair(args[1], args[2], args[3], args[4], args[5], args[6], args[7], args[8], args[9], args[10])
      [] f = "hint_line" -> hint_line(args[1], args[2])
      [] f = "_fancy_helper" -> _fancy_helper(args[1], args[2], args[3], args[4], args[5], args[6])
      [] f = "_fancy_replace" -> _fancy_replace(args[1], args[2], args[3], args[4], args[5], args[6])
      [] f = "ndiff" -> ndiff(args[1], args[2])
      [] f = "classified_lines" -> classified_lines(args[1])
      [] f = "highlight_diff" -> highlight_diff(args[1])
      [] f = "generate_diff" -> generate_diff(args[1], args[2])
      [] f = "clean_code" -> clean_code(args[1], args[2], args[3])

VARIABLES
    input,      \* the text the call was given
    second,     \* the second text, for the diff
    op,         \* the operation called
    pc,         \* where the call stands
    code,       \* refactor_code: its variable code
    tree,       \* refactor_code: its variable tree
    changes,    \* refactor_code: its variable changes
    ret         \* how the call ended

vars == <<input, second, op, pc, code, tree, changes, ret>>

\* The texts of at most MaxLines lines over a pool of lines.
Texts(pool) == UNION {[1..n -> pool] : n \in 1..MaxLines}

InitWith(texts, seconds) ==
    /\ input \in texts
    /\ second \in seconds \cup {input}
    /\ op = ""
    /\ pc = "idle"
    /\ code = input
    /\ tree = <<>>
    /\ changes = <<>>
    /\ ret = NoReturn

\* analyze_code(input)
Analyze ==
    /\ pc = "idle"
    /\ op' = "analyze"
    /\ pc' = "done"
    /\ ret' = Returned(AnalyzeCode(input))
    /\ UNCHANGED <<input, second, code, tree, changes>>

\* clean_code(input); each formatter works or fails.
Clean ==
    /\ pc = "idle"
    /\ \E isort_fails \in BOOLEAN, black_fails \in BOOLEAN :
          ret' = CleanCode(input, isort_fails, black_fails)
    /\ op' = "clean"
    /\ pc' = "done"
    /\ UNCHANGED <<input, second, code, tree, changes>>

\* refactor_code(input), lines 16-19: the first parse.
RefactorParse ==
    /\ pc = "idle"
    /\ op' = "refactor"
    /\ LET parsed == Parse(code) IN
       IF parsed.err = ""
       THEN /\ tree' = parsed.stmts
            /\ pc' = "rename"
            /\ ret' = ret
       ELSE /\ tree' = tree
            /\ pc' = "done"
            /\ ret' = Returned([code |-> code,
                                changes |-> <<FailureEntry(parsed.err)>>])
    /\ changes' = <<>>
    /\ UNCHANGED <<input, second, code>>

\* A wrong step: the result of a pass recorded, the tree left as it was.
AfterPassKeepingTree(r, next) ==
    /\ changes' = changes \o r.changes
    /\ code' = IF r.changes # <<>> THEN r.code ELSE code
    /\ pc' = next
    /\ UNCHANGED <<tree, ret>>

\* What refactor_code does with the result r of a pass: if the pass
\* reports changes, they are recorded, code becomes the new text and the
\* tree is built again, and a failure of that ends the call with code as
\* it then is.
AfterPass(r, next) ==
    IF r.changes # <<>>
    THEN LET parsed == Parse(r.code) IN
         /\ changes' = changes \o r.changes
         /\ code' = r.code
         /\ IF parsed.err = ""
            THEN /\ tree' = parsed.stmts
                 /\ pc' = next
                 /\ ret' = ret
            ELSE /\ tree' = tree
                 /\ pc' = "done"
                 /\ ret' = Returned([code |-> r.code,
                                     changes |-> <<FailureEntry(parsed.err)>>])
    ELSE /\ pc' = next
         /\ UNCHANGED <<code, tree, changes, ret>>

\* refactor_code, lines 22-27
RefactorRename ==
    /\ pc = "rename"
    /\ AfterPass(RenameVariables(code, tree), "extract")
    /\ UNCHANGED <<input, second, op>>

\* refactor_code, lines 30-34
RefactorExtract ==
    /\ pc = "extract"
    /\ AfterPass(ExtractFunctions(code, tree), "simplify")
    /\ UNCHANGED <<input, second, op>>

\* refactor_code, lines 37-41
RefactorSimplify ==
    /\ pc = "simplify"
    /\ AfterPass(SimplifyExpressions(code, tree), "dry")
    /\ UNCHANGED <<input, second, op>>

\* refactor_code, lines 44-49: the last pass and the return.
RefactorDry ==
    /\ pc = "dry"
    /\ LET r == ApplyDryPrinciples(code, tree)
           all_changes == IF r.changes # <<>> THEN changes \o r.changes
                          ELSE changes
           new_code == IF r.changes # <<>> THEN r.code ELSE code
       IN /\ changes' = all_changes
          /\ code' = new_code
          /\ ret' = Returned([code |-> new_code, changes |-> all_changes])
    /\ pc' = "done"
    /\ UNCHANGED <<input, second, op, tree>>

\* generate_diff(input, second)
Diff ==
    /\ pc = "idle"
    /\ op' = "diff"
    /\ pc' = "done"
    /\ ret' = Returned(GenerateDiff(input, second))
    /\ UNCHANGED <<input, second, code, tree, changes>>

Next ==
    \/ Analyze
    \/ Clean
    \/ RefactorParse
    \/ RefactorRename
    \/ RefactorExtract
    \/ RefactorSimplify
    \/ RefactorDry
    \/ Diff

(* ------------------------------------------------------------------ *)
(* Specifications.  Each draws the input from the texts over a pool of  *)
(* lines.                                                               *)
(* ------------------------------------------------------------------ *)

\* Lines for the handling of failures: a short name assigned, the same
\* letter as the prefix of a literal, a line that is no statement, a
\* number too long to print, an expression too deep to build, a call.
FailureLines ==
    { <<"b", " ", "=", " ", "1">>,
      <<"name", " ", "=", " ", "b", Quote, "x", Quote>>,
      <<"c", " ", "=", " ", "=", " ", "1">>,
      <<"total", " ", "=", " ", HugeHex>>,
      <<"total", " ", "=", " ", DeepSum>>,
      <<"print", "(", "price", ")">> }

Init == InitWith(Texts(FailureLines), {})

Spec == Init /\ [][Next]_vars

\* Lines for the Renamer: a function of two parameters with a short name
\* each, the parameters assigned, a short name assigned a literal that
\* holds another, both read, and a literal with a short name's letter as
\* its prefix.
RenameLines ==
    { <<"def", " ", "f", "(", "a", ",", " ", "b", ")", ":">>,
      <<IndentUnit, "a", " ", "=", " ", "1">>,
      <<IndentUnit, "b", " ", "=", " ", "2">>,
      <<"tmp", " ", "=", " ", Quote, "b", Quote>>,
      <<"print", "(", "b", ",", " ", "tmp", ")">>,
      <<"name", " ", "=", " ", "b", Quote, "x", Quote>> }

InitRename == InitWith(Texts(RenameLines), {})

SpecRename == InitRename /\ [][Next]_vars

\* Lines for the detection of duplicates: two short assignments of one
\* expression to two names, a long assignment, the same with other
\* blanks, the same with another name, and the same in a loop.
DuplicationLines ==
    { <<"c", " ", "=", " ", "a", " ", "+", " ", "b">>,
      <<"d", " ", "=", " ", "a", " ", "+", " ", "b">>,
      <<"total_amount", " ", "=", " ", "price", " ", "+", " ", "tax">>,
      <<"total_amount", "  ", "=", " ", "price", " ", "+", " ", "tax">>,
      <<"final_amount", " ", "=", " ", "price", " ", "+", " ", "tax">>,
      <<"for", " ", "i", " ", "in", " ", "xs", ":">>,
      <<IndentUnit, "total_amount", " ", "=", " ", "price", " ", "+", " ", "tax">> }

InitDup == InitWith(Texts(DuplicationLines), {})

SpecDup == InitDup /\ [][Next]_vars

\* Lines for the detection of unused imports: a module and a dotted
\* module imported, each read, a variable that bears the last part of the
\* dotted name, an attribute of it read, the module's name assigned.
ImportLines ==
    { <<"import", " ", "os">>,
      <<"import", " ", "os", ".", "path">>,
      <<"print", "(", "os", ".", "path", ")">>,
      <<"path", " ", "=", " ", "open">>,
      <<"path", ".", "real">>,
      <<"os", " ", "=", " ", "1">>,
      <<"print", "(", "os", ")">> }

InitImports == InitWith(Texts(ImportLines), {})

SpecImports == InitImports /\ [][Next]_vars

\* Lines for the diff: an empty line, so that a text may end with a line
\* break, and two others.
DiffLines ==
    { <<>>,
      <<"b", " ", "=", " ", "1">>,
      <<"print", "(", "price", ")">> }

InitDiff == InitWith(Texts(DiffLines), Texts(DiffLines))

NextDiff == Diff

SpecDiff == InitDiff /\ [][NextDiff]_vars

\* The texts of at most n lines over a pool of lines.
TextsUpTo(pool, n) == UNION {[1..m -> pool] : m \in 1..n}

\* Lines for the nesting of loops: a loop, a loop in its body, a
\* conditional in its body, a loop one block further in, and a statement
\* for the body at each depth.
LoopLines ==
    { <<"for", " ", "i", " ", "in", " ", "xs", ":">>,
      <<IndentUnit, "for", " ", "j", " ", "in", " ", "ys", ":">>,
      <<IndentUnit, "if", " ", "i", ":">>,
      <<IndentUnit, IndentUnit, "while", " ", "j", ":">>,
      <<IndentUnit, "pass">>,
      <<IndentUnit, IndentUnit, "pass">>,
      <<IndentUnit, IndentUnit, IndentUnit, "pass">> }

InitLoops == InitWith(TextsUpTo(LoopLines, MaxLoopLines), {})

SpecLoops == InitLoops /\ [][Next]_vars

\* Lines for the magic numbers: a number outside the allow-list, the
\* allow-list's largest, both kinds in one call, a sum, a number too long
\* to print.
NumberLines ==
    { <<"limit", " ", "=", " ", "7">>,
      <<"limit", " ", "=", " ", "100">>,
      <<"print", "(", "7", ",", " ", "10", ")">>,
      <<"total", " ", "=", " ", "2", " ", "+", " ", "7", " ", "+", " ", "7">>,
      <<"total", " ", "=", " ", HugeHex>>,
      <<"print", "(", "price", ")">> }

InitNumbers == InitWith(Texts(NumberLines), {})

SpecNumbers == InitNumbers /\ [][Next]_vars

\* Lines for the Extractor: an expression statement of more than 20
\* characters, an import, a short name assigned, a loop, the statement
\* in its body, and a second long expression statement.
ExtractLines ==
    { <<"print", "(", "total_amount", ",", " ", "price", ")">>,
      <<"import", " ", "os">>,
      <<"b", " ", "=", " ", "1">>,
      <<"for", " ", "i", " ", "in", " ", "xs", ":">>,
      <<IndentUnit, "print", "(", "total_amount", ",", " ", "price", ")">>,
      <<"print", "(", "price", ",", " ", "total_amount", ")">> }

InitExtract == InitWith(Texts(ExtractLines), {})

SpecExtract == InitExtract /\ [][Next]_vars

\* Lines for the classification of names: assignments to a name of the
\* Renamer's vocabulary, a descriptive name, a loop variable, a name with
\* an underscore first, a name of two characters, a name of the shared
\* vocabulary, a single letter, and a call that reads two of them.
NameLines ==
    { <<"data", " ", "=", " ", "1">>,
      <<"total", " ", "=", " ", "2">>,
      <<"i", " ", "=", " ", "1">>,
      <<"_t", " ", "=", " ", "1">>,
      <<"ab", " ", "=", " ", "1">>,
      <<"tmp", " ", "=", " ", "1">>,
      <<"b", " ", "=", " ", "1">>,
      <<"print", "(", "data", ",", " ", "total", ")">> }

InitNames == InitWith(Texts(NameLines), {})

SpecNames == InitNames /\ [][Next]_vars

\* Lines for the diff of texts that differ a little: two calls that
\* differ in one character, an assignment of a string, an empty line.
SimilarLines ==
    { <<"print", "(", "price", ")">>,
      <<"print", "(", "prices", ")">>,
      <<"name", " ", "=", " ", Quote, "x", Quote>>,
      <<>> }

InitSimilar ==
    InitWith(TextsUpTo(SimilarLines, MaxDiffLines),
             TextsUpTo(SimilarLines, MaxDiffLines))

SpecSimilar == InitSimilar /\ [][NextDiff]_vars

\* Lines for the imports of names from a module: an import of one name
\* and of two, reads of the names bare and as the base of an attribute, a
\* plain import and a read of the module.
FromLines ==
    { <<"from", " ", "os", " ", "import", " ", "path">>,
      <<"from", " ", "os", " ", "import", " ", "path", ",", " ", "sep">>,
      <<"print", "(", "path", ")">>,
      <<"path", ".", "real">>,
      <<"print", "(", "sep", ")">>,
      <<"print", "(", "os", ")">>,
      <<"import", " ", "os">> }

InitFrom == InitWith(Texts(FromLines), {})

SpecFrom == InitFrom /\ [][Next]_vars

(* ------------------------------------------------------------------ *)
(* Properties                                                          *)
(* ------------------------------------------------------------------ *)

\* The call of operation o has ended.
Done(o) == op = o /\ pc = "done"

InputValid == SyntacticallyValid(input)

\* The findings of a category in the mapping analyze_code returned, none
\* when the mapping has no such category.
Findings(category) ==
    IF category \in DOMAIN ret.value THEN ret.value[category] ELSE <<>>

\* Some line of text is line.
HasLine(text, line) == \E i \in 1..Len(text) : text[i] = line

(* ----------------------------- C1 ---------------------------------- *)

\* C1: for every syntactically valid input, analyze_code returns a mapping
\* whose keys are exactly the twelve categories, and neither the
\* 'Syntax Errors' nor the 'Errors' category.
C1_TwelveCategories ==
    Done("analyze") /\ InputValid =>
        /\ ret.kind = "returned"
        /\ DOMAIN ret.value = Categories

(* ----------------------------- C2 ---------------------------------- *)

\* C2, as the code has it: for every syntactically invalid input,
\* analyze_code returns only the 'Syntax Errors' category with one entry
\* that holds the line and the message of the error, refactor_code
\* returns a change list that holds only the syntax-failure entry, and
\* clean_code returns the input text and nothing else.
C2_SyntaxFailureReported ==
    ~InputValid =>
        /\ Done("analyze") =>
              /\ ret.kind = "returned"
              /\ DOMAIN ret.value = {"Syntax Errors"}
              /\ Len(ret.value["Syntax Errors"]) = 1
              /\ LET entry == ret.value["Syntax Errors"][1] IN
                 /\ entry[1] = "Line"
                 /\ entry[2] \in 1..Len(input)
                 /\ entry[3] = "SyntaxError"
        /\ Done("refactor") =>
              /\ ret.kind = "returned"
              /\ ret.value.changes =
                     <<<<"Could not refactor due to syntax errors">>>>
        /\ Done("clean") => ret = Returned(input)

\* C2, its case: each of the three operations has ended on an invalid
\* input, here analyze_code with the error on the second line.
C2_Witness ==
    /\ Done("analyze")
    /\ ~InputValid
    /\ "Syntax Errors" \in DOMAIN ret.value
    /\ ret.value["Syntax Errors"][1][2] = 2

\* C2, as stated: what clean_code returns tells the caller that the input
\* did not parse, the one thing it returns being the text: the input
\* comes back as it was given only when it did not parse.
C2_CleanIndicatesFailure ==
    Done("clean") /\ ret = Returned(input) => ~InputValid

(* ----------------------------- C3 ---------------------------------- *)

\* C3: for every syntactically invalid input, clean_code returns exactly
\* the input text and refactor_code returns exactly the input text as
\* its first component.
C3_InvalidInputUnchanged ==
    ~InputValid =>
        /\ Done("clean") => ret.kind = "returned" /\ ret.value = input
        /\ Done("refactor") => ret.kind = "returned" /\ ret.value.code = input

\* C3, its case: clean_code has ended on an invalid input that holds a
\* line the passes would remove from a valid one, an unused assignment.
C3_Witness ==
    /\ Done("clean")
    /\ ~InputValid
    /\ HasLine(input, <<"b", " ", "=", " ", "1">>)

(* ----------------------------- C4 ---------------------------------- *)

\* C4: whenever refactor_code returns a failure entry in its change list,
\* the text it returns is the text it was given and the change list has
\* exactly that one entry.
C4_FailureReturnsOriginal ==
    Done("refactor")
    /\ (\E k \in 1..Len(ret.value.changes) : IsFailureEntry(ret.value.changes[k]))
    => /\ ret.value.code = input
       /\ Len(ret.value.changes) = 1

(* ----------------------------- C5 ---------------------------------- *)

\* C5: none of analyze_code, clean_code and refactor_code ends by raising:
\* each returns a value, however the call failed.
C5_NothingRaised ==
    pc = "done" /\ op \in {"analyze", "clean", "refactor"} =>
        ret.kind = "returned"

(* ----------------------------- C6 ---------------------------------- *)

\* name occurs in text as a whole token.
OccursIn(name, text) ==
    \E i \in 1..Len(text) : \E k \in 1..Len(text[i]) : text[i][k] = name

\* The identifiers the Renamer classifies as poor: the targets of the
\* assignments of the tree that have a poor name.
PoorTargets(stmts) ==
    {stmts[k].toks[1].v :
        k \in {k \in 1..Len(stmts) :
                 stmts[k].kind = "assign" /\ IsPoorName(stmts[k].toks[1].v)}}

\* The identifiers analyze_code reports under 'Poorly Named Variables'.
ReportedPoor(text) ==
    LET result == AnalyzeCode(text) IN
    IF "Poorly Named Variables" \in DOMAIN result
    THEN {result["Poorly Named Variables"][k][2] :
            k \in 1..Len(result["Poorly Named Variables"])}
    ELSE {}

\* The Renamer was the last pass to change the text: code is its output.
RenamerOutput ==
    /\ op = "refactor"
    /\ changes # <<>>
    /\ changes[Len(changes)][1] = "Renamed variable"

\* C6: after the Renamer has run on a valid input, no identifier it
\* classified as poor, and none analyze_code reports as poorly named,
\* occurs as a whole token in the output text, whatever the number and
\* the order of the entries of the rename plan.
C6_NoPoorNameLeft ==
    RenamerOutput =>
        \A name \in PoorTargets(Parse(input).stmts) \cup ReportedPoor(input) :
            ~OccursIn(name, code)

\* C6, its case: the Renamer has rewritten a text for a plan of two
\* different names.
C6_Witness ==
    /\ RenamerOutput
    /\ pc = "extract"
    /\ code # input
    /\ Cardinality(PoorTargets(Parse(input).stmts)) >= 2

(* ----------------------------- C7 ---------------------------------- *)

\* C7: for every syntactically valid input the text the Renamer produces
\* is syntactically valid, so that the tree can be built again.
C7_RenamedTextValid ==
    RenamerOutput => SyntacticallyValid(code)

(* ----------------------------- C8 ---------------------------------- *)

\* The entries of the rendered diff that stand for lines.
ClassifiedEntries(rendered) == SelectSeq(rendered, LAMBDA e : e.class # "")

\* The number of physical lines of a text: a final line break ends the
\* last line and starts no other.
PhysicalLineCount(text) ==
    IF text[Len(text)] = <<>> THEN Len(text) - 1 ELSE Len(text)

\* C8: for every text A, generate_diff(A, A) has only 'unchanged'
\* entries, none 'added' or 'removed', and as many of them as A has
\* physical lines.
C8_DiffOfSameText ==
    Done("diff") /\ second = input =>
        LET entries == ClassifiedEntries(ret.value) IN
        /\ \A k \in 1..Len(entries) : entries[k].class = "diff-unchanged"
        /\ Len(entries) = PhysicalLineCount(input)

\* C8, its case: a text of two lines and a final line break compared
\* with itself.
C8_Witness ==
    /\ Done("diff")
    /\ second = input
    /\ Len(input) = 3
    /\ input[3] = <<>>
    /\ input[1] # <<>>
    /\ Len(ClassifiedEntries(ret.value)) = 2

(* ----------------------------- C9 ---------------------------------- *)

\* A text with every run of blanks read as one blank.
BlanksAsOne(ps) == [k \in 1..Len(ps) |-> IF ps[k] \in Spaces THEN " " ELSE ps[k]]

\* The statement of the input on line l, as the detector compares it.
StatementText(l) == BlanksAsOne(Strip(input[l]))

\* The lines of the input that hold a statement the detector considers:
\* an assignment or an expression of more than 20 characters.
SubstantiveLines ==
    LET stmts == Parse(input).stmts IN
    {stmts[k].line :
        k \in {k \in 1..Len(stmts) :
                 /\ stmts[k].kind \in {"assign", "expr"}
                 /\ CharLen(Strip(input[stmts[k].line])) > 20}}

\* The pairs of lines that the 'Code Duplication' findings name.
DuplicatePairs ==
    {<<Findings("Code Duplication")[k][2], Findings("Code Duplication")[k][4]>> :
        k \in 1..Len(Findings("Code Duplication"))}

\* C9, as the code has it: analyze_code reports a 'Code Duplication'
\* finding for two lines only when they are different lines that hold
\* statements of more than 20 characters whose whole text, target
\* included, is the same up to runs of blanks; no pair is reported
\* twice; and every two such lines are reported, either as a pair or
\* each with the line of the same text that was seen first.
C9_WholeStatementDuplicates ==
    Done("analyze") /\ InputValid =>
        /\ Cardinality(DuplicatePairs) = Len(Findings("Code Duplication"))
        /\ \A pair \in DuplicatePairs :
              /\ pair[1] # pair[2]
              /\ pair[1] \in SubstantiveLines
              /\ pair[2] \in SubstantiveLines
              /\ StatementText(pair[1]) = StatementText(pair[2])
        /\ \A a \in SubstantiveLines : \A b \in SubstantiveLines \ {a} :
              StatementText(a) = StatementText(b) =>
                  \/ <<a, b>> \in DuplicatePairs
                  \/ <<b, a>> \in DuplicatePairs
                  \/ \E first \in SubstantiveLines \ {a, b} :
                        /\ <<first, a>> \in DuplicatePairs
                        /\ <<first, b>> \in DuplicatePairs

\* C9, its case: one finding, for two lines that differ in their blanks.
C9_Witness ==
    /\ Done("analyze")
    /\ InputValid
    /\ Len(Findings("Code Duplication")) = 1
    /\ \E pair \in DuplicatePairs : input[pair[1]] # input[pair[2]]

\* The assignments of the input, and of one what is assigned and to what.
AssignmentLines ==
    LET stmts == Parse(input).stmts IN
    {stmts[k].line : k \in {k \in 1..Len(stmts) : stmts[k].kind = "assign"}}
AssignedTarget(l) == Strip(input[l])[1]
AssignedExpression(l) ==
    LET text == Strip(input[l])
        eq   == CHOOSE k \in 1..Len(text) :
                    text[k] = "=" /\ \A m \in 1..(k - 1) : text[m] # "="
    IN BlanksAsOne(Strip(SubSeq(text, eq + 1, Len(text))))

\* C9, as stated: two assignments on different lines of the same
\* expression to different targets give exactly one 'Code Duplication'
\* finding, which names the two lines.
C9_SameExpressionReported ==
    Done("analyze") /\ InputValid =>
        \A a \in AssignmentLines : \A b \in AssignmentLines :
            /\ a < b
            /\ AssignedTarget(a) # AssignedTarget(b)
            /\ AssignedExpression(a) = AssignedExpression(b)
            /\ AssignmentLines = {a, b}
            => Findings("Code Duplication") = <<<<"Similar code at lines", a, "and", b>>>>

(* ----------------------------- C10 --------------------------------- *)

\* The modules of the plain import statements of the input.
ImportedModules ==
    LET stmts == Parse(input).stmts IN
    {ImportsOf(stmts[k])[1] :
        k \in {k \in 1..Len(stmts) : stmts[k].kind = "import"}}

\* The text reads module: it reads the module's name, the name of a
\* package the module is in, or an attribute of either.
ReadsModule(module) ==
    \E used \in GetUsedNames(Parse(input).stmts) :
        LET m == IF Len(used) < Len(module) THEN Len(used) ELSE Len(module) IN
        SubSeq(used, 1, m) = SubSeq(module, 1, m)

ReportedUnused(module) ==
    \E k \in 1..Len(Findings("Unused Imports")) :
        Findings("Unused Imports")[k] = <<"Import", module, "is not used">>

\* C10: a plain import of a module is reported under 'Unused Imports'
\* when the text reads the module nowhere, and is not reported when the
\* text reads the module or an attribute of it.
C10_UnusedImportReported ==
    Done("analyze") /\ InputValid =>
        \A module \in ImportedModules :
            ReportedUnused(module) <=> ~ReadsModule(module)

(* ----------------------------- C11 --------------------------------- *)

\* The tree of the input.
InputTree == Parse(input).stmts

\* The positions of the loops of the input's tree.
LoopPositions == {k \in 1..Len(InputTree) : InputTree[k].kind \in {"for", "while"}}

\* Statement j is in the block that statement k opens, at any depth.
Contains(k, j) ==
    /\ k < j
    /\ \A m \in (k + 1)..j : InputTree[m].depth > InputTree[k].depth

\* Statement j is a statement of the body of statement k itself.
DirectlyContains(k, j) ==
    Contains(k, j) /\ InputTree[j].depth = InputTree[k].depth + 1

\* The (level, line) pairs of the 'Nested Loops' findings.
NestedLoopReports ==
    {<<Findings("Nested Loops")[n][2], Findings("Nested Loops")[n][4]>> :
        n \in 1..Len(Findings("Nested Loops"))}

\* C11: a loop whose body directly contains a loop whose body directly
\* contains a third loop is reported under 'Nested Loops' with level 3 at
\* the line of the outermost loop (the third loop holding no loop), and a
\* loop with no loop nested in it is never reported.
C11_TripleNestingReported ==
    Done("analyze") /\ InputValid =>
        /\ \A k1 \in LoopPositions : \A k2 \in LoopPositions : \A k3 \in LoopPositions :
              /\ DirectlyContains(k1, k2)
              /\ DirectlyContains(k2, k3)
              /\ \A k4 \in LoopPositions : ~Contains(k1, k4) \/ k4 \in {k2, k3}
              => <<3, InputTree[k1].line>> \in NestedLoopReports
        /\ \A k \in LoopPositions :
              (\A j \in LoopPositions : ~Contains(k, j))
              => \A report \in NestedLoopReports : report[2] # InputTree[k].line

\* C11, its case: three loops, each in the body of the one before, and
\* the report of level 3 at line 1.
C11_Witness ==
    /\ Done("analyze")
    /\ InputValid
    /\ \E k2 \in LoopPositions : \E k3 \in LoopPositions :
          DirectlyContains(1, k2) /\ DirectlyContains(k2, k3)
    /\ <<3, 1>> \in NestedLoopReports

(* ----------------------------- C12 --------------------------------- *)

\* The allow-list of the magic-number rule.
AllowList == {0, 1, -1, 2, 10, 100}

\* The numeric literal p has a value outside the allow-list.
OutsideAllowList(p) == p = HugeHex \/ NumVal(p) \notin AllowList

\* How often the literal p is written on line l of the input.
Occurrences(p, l) == Cardinality({k \in 1..Len(input[l]) : input[l][k] = p})

\* How many 'Magic Numbers' findings name the literal p at line l.
MagicReports(p, l) ==
    Cardinality({n \in 1..Len(Findings("Magic Numbers")) :
                    /\ Findings("Magic Numbers")[n][2] = p
                    /\ Findings("Magic Numbers")[n][4] = l})

\* C12: every numeric literal of the input whose value is not in the
\* allow-list produces a 'Magic Numbers' finding, and a numeric literal
\* whose value is in the allow-list produces none.
C12_MagicNumbersFlagged ==
    Done("analyze") /\ InputValid =>
        \A l \in 1..Len(input) : \A p \in Numbers :
            MagicReports(p, l) =
                IF OutsideAllowList(p) THEN Occurrences(p, l) ELSE 0

(* ----------------------------- C13 --------------------------------- *)

\* The passes of refactor_code, as the places of the call.
Passes == {"rename", "extract", "simplify", "dry"}

\* The tree a pass is given is the parse of the text it is given.
TreeIsFresh == op = "refactor" /\ pc \in Passes => tree = Parse(code).stmts

\* A step of refactor_code runs the pass of its place on the text and the
\* parse of that text, records its changes after those of the passes
\* before it, and goes on to the next pass in the fixed order, or ends
\* the call.
PassStep ==
    op = "refactor" /\ pc \in Passes =>
        LET fresh == Parse(code).stmts
            r == CASE pc = "rename" -> RenameVariables(code, fresh)
                   [] pc = "extract" -> ExtractFunctions(code, fresh)
                   [] pc = "simplify" -> SimplifyExpressions(code, fresh)
                   [] pc = "dry" -> ApplyDryPrinciples(code, fresh)
            next == CASE pc = "rename" -> "extract"
                      [] pc = "extract" -> "simplify"
                      [] pc = "simplify" -> "dry"
                      [] pc = "dry" -> "done"
        IN /\ changes' = changes \o r.changes
           /\ code' = (IF r.changes # <<>> THEN r.code ELSE code)
           /\ pc' \in {next, "done"}
           /\ pc' = "done" /\ next # "done" => ~SyntacticallyValid(code')

\* C13: refactor_code runs its passes in the order Renamer, Extractor,
\* identification of complex expressions, identification of duplicate
\* assignments, and every pass is given the tree that is the parse of
\* the text it is given: after a pass has changed the text the tree is
\* built again before the next pass runs.
C13_PassesInOrderOnFreshTree == []TreeIsFresh /\ [][PassStep]_vars

\* C13, its case: the Extractor has changed a text the Renamer had
\* changed before, and the next pass is about to run.
C13_Witness ==
    /\ op = "refactor"
    /\ pc = "simplify"
    /\ Len(changes) >= 2
    /\ changes[1][1] = "Renamed variable"
    /\ changes[Len(changes)][1] # "Renamed variable"
    /\ code # input
    /\ tree = Parse(code).stmts

(* ----------------------------- C14 --------------------------------- *)

\* The Extractor was the first pass to change the text, and no pass has
\* changed it since: code is its output for the input.
ExtractorOutput ==
    /\ op = "refactor"
    /\ changes # <<>>
    /\ \A n \in 1..Len(changes) :
          changes[n][1] = "Extracted repeated code into function"

\* The fragments the Extractor extracts from the input: the expression
\* statements of more than 20 characters that the input holds twice or
\* more.
RepeatedFragments ==
    LET at(k) == Strip(input[InputTree[k].line])
        long  == {k \in 1..Len(InputTree) :
                     InputTree[k].kind = "expr" /\ CharLen(at(k)) > 20}
    IN {at(k) : k \in {k \in long : \E j \in long \ {k} : at(j) = at(k)}}

\* The fragment occurs in the line.
HasFragment(line, fragment) ==
    \E a \in 1..Len(line) :
        /\ a + Len(fragment) - 1 <= Len(line)
        /\ SubSeq(line, a, a + Len(fragment) - 1) = fragment

\* Line i of code opens the definition of the function name.
DefinesAt(i, name) == code[i] = <<"def", " ", name, "(", ")", ":">>

\* C14: after the Extractor has extracted a repeated fragment as
\* extracted_function_<n>, the body of that function in the output is the
\* fragment itself, and every occurrence of the fragment outside the
\* definition is replaced by the call extracted_function_<n>().
C14_ExtractedBodyIsFragment ==
    ExtractorOutput =>
        /\ \A n \in 1..Len(changes) :
              \E i \in 1..(Len(code) - 1) : \E fragment \in RepeatedFragments :
                  /\ DefinesAt(i, changes[n][2])
                  /\ code[i + 1] = <<IndentUnit>> \o fragment
        /\ \A fragment \in RepeatedFragments : \A j \in 1..Len(code) :
              HasFragment(code[j], fragment) =>
                  j > 1 /\ \E n \in 1..Len(changes) : DefinesAt(j - 1, changes[n][2])

(* ----------------------------- C15 --------------------------------- *)

\* The names the input binds by assignment.
BoundNames == {InputTree[k].toks[1].v :
                  k \in {k \in 1..Len(InputTree) : InputTree[k].kind = "assign"}}

\* The rule of the classification, for a non-descriptive vocabulary.
PoorByRule(name, vocabulary) ==
    /\ SubSeq(name, 1, 1) # "_"
    /\ name \notin {"i", "j", "k", "x", "y", "z"}
    /\ Len(name) <= 2 \/ name \in vocabulary

\* The Renamer has run on the input, and no later pass has.
RenamerHasRun == op = "refactor" /\ pc = "extract"

\* The Renamer renamed name: it reports the renaming and the name is gone
\* from the text; or it left name alone: no report, and the name is
\* wherever it was.
Renamed(name) ==
    /\ \E n \in 1..Len(changes) :
          changes[n][1] = "Renamed variable" /\ changes[n][2] = name
    /\ ~OccursIn(name, code)
LeftAlone(name) ==
    /\ \A n \in 1..Len(changes) :
          ~(changes[n][1] = "Renamed variable" /\ changes[n][2] = name)
    /\ \A i \in 1..Len(input) : \A k \in 1..Len(input[i]) :
          input[i][k] = name => code[i][k] = name

RenamesByRule(vocabulary) ==
    RenamerHasRun =>
        \A name \in BoundNames :
            IF PoorByRule(name, vocabulary) THEN Renamed(name) ELSE LeftAlone(name)

\* The rule with the vocabulary the Renamer itself lists (it adds data to
\* the five names of the analyzer): this is what the Renamer does.
RenamesByOwnVocabulary ==
    RenamesByRule({"temp", "tmp", "var", "foo", "bar", "data"})

\* C15: the Renamer renames a name bound by an assignment exactly when the
\* name has no underscore first, is none of i, j, k, x, y, z, and has at
\* most two characters or is one of temp, tmp, var, foo, bar; a bound name
\* of three or more characters outside that vocabulary is never renamed.
C15_VocabularyOfFive ==
    RenamesByRule({"temp", "tmp", "var", "foo", "bar"})

(* ----------------------------- C16 --------------------------------- *)

\* The places of the change list that describe a renaming.
RenameEntries ==
    {n \in 1..Len(changes) : changes[n][1] = "Renamed variable"}

\* The identifiers of the rename plan of the input.
PlannedIdentifiers ==
    LET plan == RenamePlan(InputTree) IN {plan[k][1] : k \in 1..Len(plan)}

\* C16: the Renamer emits exactly one change description per renamed
\* identifier: after it has run, also on a text that assigns the same poor
\* name several times, the change list holds as many rename entries as the
\* rename plan has identifiers.
C16_OneEntryPerIdentifier ==
    RenamerHasRun => Cardinality(RenameEntries) = Cardinality(PlannedIdentifiers)

(* ----------------------------- C17 --------------------------------- *)

\* The largest number of a set of naturals, 0 for the empty set.
Largest(S) == IF S = {} THEN 0 ELSE CHOOSE n \in S : \A m \in S : m <= n

\* The length of the longest chain of loops, each somewhere in the block
\* of the one before, that starts with the loop at position k.
RECURSIVE LongestChain(_)
LongestChain(k) ==
    1 + Largest({LongestChain(j) : j \in {j \in LoopPositions : Contains(k, j)}})

\* C17: a loop is reported under 'Nested Loops' whenever another loop
\* occurs anywhere in its block, also inside a conditional of its body,
\* and the reported level is the length of the longest chain of loops
\* nested in it.
C17_DescendantLoopsReported ==
    Done("analyze") /\ InputValid =>
        \A k \in LoopPositions :
            (\E j \in LoopPositions : Contains(k, j))
            => <<LongestChain(k), InputTree[k].line>> \in NestedLoopReports

(* ----------------------------- C18 --------------------------------- *)

\* The texts, in order, of the classified entries of the rendered diff
\* whose class is one of classes.
EntryTexts(classes) ==
    LET chosen == SelectSeq(ClassifiedEntries(ret.value),
                            LAMBDA e : e.class \in classes)
    IN [k \in 1..Len(chosen) |-> chosen[k].text]

\* The lines of a text, each as html.escape writes it.
EscapedLines(text) ==
    [k \in 1..Len(SplitLines(text)) |-> HtmlEscape(SplitLines(text)[k])]

\* The delta of the two texts that generate_diff renders.
Delta == Ndiff(SplitLines(input), SplitLines(second))

\* C18: for all texts A and B, the classified entries of
\* generate_diff(A, B) keep the order of the lines and leave out the hint
\* lines only: the 'removed' and 'unchanged' entries are, in order, the
\* lines of A, and the 'added' and 'unchanged' entries are, in order, the
\* lines of B (up to the escaping of HTML).
C18_DiffKeepsBothTexts ==
    Done("diff") =>
        /\ EntryTexts({"diff-removed", "diff-unchanged"}) = EscapedLines(input)
        /\ EntryTexts({"diff-added", "diff-unchanged"}) = EscapedLines(second)

\* C18, its case: two different texts whose delta has a hint line, and a
\* rendered diff with entries of all three classes.
C18_Witness ==
    /\ Done("diff")
    /\ \E k \in 1..Len(Delta) : Head(Delta[k]) = "? "
    /\ \A class \in {"diff-removed", "diff-added", "diff-unchanged"} :
          EntryTexts({class}) # <<>>

(* ----------------------------- C19 --------------------------------- *)

\* The imports `from M import N` of a tree, each as the segments of M.N.
FromImports(stmts) ==
    UNION {{ImportsOf(stmts[k])[m] : m \in 1..Len(ImportsOf(stmts[k]))} :
              k \in {k \in 1..Len(stmts) : stmts[k].kind = "from"}}

\* The names a tree reads, bare or as the base of an attribute.
NamesRead(stmts) == {used[1] : used \in GetUsedNames(stmts)}

\* C19: an import `from M import N` is not reported under 'Unused
\* Imports' when the text reads the name N; it is reported only when N is
\* read nowhere.
C19_FromImportReadNotReported ==
    Done("analyze") /\ InputValid =>
        \A imp \in FromImports(InputTree) :
            imp[Len(imp)] \in NamesRead(InputTree) => ~ReportedUnused(imp)

(* ----------------------------- C20 --------------------------------- *)

\* The names the import statements of a text bind: the names after
\* `import` of `from M import ...`, and the first segment of the module of
\* a plain import.
ImportedNames(text) ==
    LET stmts == Parse(text).stmts IN
    {imp[Len(imp)] : imp \in FromImports(stmts)}
    \cup {ImportsOf(stmts[k])[1][1] :
             k \in {k \in 1..Len(stmts) : stmts[k].kind = "import"}}

\* The texts that clean_code may give to the stripping step for the
\* input: the input after the sorting of the imports and the formatting,
\* each of which may fail and leave the text as it is.
GivenToStripping ==
    {FormatWithBlack(SortImports(input, isort_fails), black_fails) :
        isort_fails \in BOOLEAN, black_fails \in BOOLEAN}

\* C20: the stripping of unused imports removes only unused imports: every
\* imported name that the text given to the step reads is still imported
\* in the text the step returns, also when the same statement imports an
\* unused name.
C20_UsedImportsKept ==
    Done("clean") /\ InputValid =>
        \A given \in GivenToStripping :
            \A name \in ImportedNames(given) :
                name \in NamesRead(Parse(given).stmts)
                => name \in ImportedNames(RemoveUnusedImports(given))

(* ----------------------------- C21 --------------------------------- *)

\* The rename plan of the input: <<old name, new name>> for each poor name.
InputPlan == RenamePlan(InputTree)

\* C21: the rename plan never merges identifiers: two different poor names
\* of one input get different replacement identifiers, and no replacement
\* identifier is an identifier that already occurs in the input text.
C21_PlanMergesNoIdentifiers ==
    RenamerHasRun =>
        /\ \A j \in 1..Len(InputPlan) : \A k \in 1..Len(InputPlan) :
              j # k => InputPlan[j][2] # InputPlan[k][2]
        /\ \A k \in 1..Len(InputPlan) : ~OccursIn(InputPlan[k][2], input)

====
